---- MODULE Spec2Model ----
(***************************************************************************)
(* Adapter and metric-evaluation subsystem of claude-orchestrator.         *)
(*                                                                         *)
(* Python strings are TLA+ strings; TLC reads them as sequences of         *)
(* characters (Len, SubSeq and \o apply), so substring tests, case         *)
(* folding and the regular expressions of the parsers are computed on the  *)
(* characters, as the code computes them.                                  *)
(*                                                                         *)
(* A call of a Python function ends in a record [exc, value]: exc is       *)
(* "none" and value the returned object, or exc names the exception that   *)
(* left the function and value is None.                                    *)
(***************************************************************************)
EXTENDS Integers, Sequences, FiniteSets, TLC

VARIABLES
    language,     \* registry: the name handed to get_language_adapter
    adapter,      \* registry: the outcome of that call, or NotCalled
    project,      \* classifier: the filesystem snapshot under project_path
    scores,       \* classifier: the local dict `scores` of the last call
    detected,     \* classifier: the outcome of detect_project_type
    command,      \* invoker: the command line handed to the adapter
    host,         \* invoker: what the machine does with the executable
    invocation,   \* invoker: the outcome of run_command
    probe,        \* invoker: the outcome of test_tool
    policy,       \* gate: the metric policy under evaluation, [source, name, rule]
    measured,     \* gate: the measured value, in hundredths
    verdict,      \* gate: the outcome of evaluate
    raw,          \* parsers: the raw output of a tool
    parsed,       \* parsers: the last parser called and its outcome
    orchestrator_config,  \* pipeline: the configuration cli.run has loaded
    acceptance,   \* pipeline: the acceptance gates of the TaskSpec
    verdicts,     \* pipeline: the verdict of each configured gate
    accepted,     \* pipeline: the outcome of the aggregation
    objects,      \* sharing: the mappings handed out by default_tools and default_metrics
    threads,      \* sharing: the call each thread has in progress on the shared adapter
    catalog,      \* catalog: the module-level dict PROJECT_TEMPLATES
    configs,      \* catalog: the configurations create_orchestrator_config has returned
    source,       \* heuristics: the file handed to a heuristic, [name, readable, text]
    ceiling,      \* heuristics: the max_lines argument
    measure,      \* heuristics: the last heuristic called and its outcome
    manifests,    \* dependencies: the manifests of the project, each [status, text]
    dependencies, \* dependencies: the outcome of get_dependencies
    ledger,       \* ledger: the directory ci and its file BENCH_SUMMARY.txt, [directory, exists, text]
    history       \* ledger: the benchmark invocations made so far, each [metric_name, value]

vars == <<language, adapter, project, scores, detected,
          command, host, invocation, probe, policy, measured, verdict,
          raw, parsed,
          orchestrator_config, acceptance, verdicts, accepted,
          objects, threads,
          catalog, configs,
          source, ceiling, measure,
          manifests, dependencies,
          ledger, history>>

registryVars == <<language, adapter>>
classifierVars == <<project, scores, detected>>
invokerVars == <<command, host, invocation, probe>>
gateVars == <<policy, measured, verdict>>
parserVars == <<raw, parsed>>
pipelineVars == <<orchestrator_config, acceptance, verdicts, accepted>>
sharingVars == <<objects, threads>>
catalogVars == <<catalog, configs>>
heuristicVars == <<source, ceiling, measure>>
dependencyVars == <<manifests, dependencies>>
ledgerVars == <<ledger, history>>

\* the variables of the components a specification leaves idle
Idle == "idle"

(***************************************************************************)
(* Python values and call outcomes                                         *)
(***************************************************************************)
None == "None"
\* the state of a call that has not been made yet
NotCalled == [exc |-> "not called", value |-> None]
Called(outcome) == outcome.exc # "not called"

\* no parser has been called yet
NotParsed == [parser |-> "none", outcome |-> NotCalled]
NotMeasured == [heuristic |-> "none", outcome |-> NotCalled]

Return(v) == [exc |-> "none", value |-> v]
Raise(e) == [exc |-> e, value |-> None]

(***************************************************************************)
(* str operations                                                          *)
(***************************************************************************)
Char(s, i) == SubSeq(s, i, i)

\* Python `sub in s`
Contains(s, sub) ==
    \E i \in 1..(Len(s) - Len(sub) + 1) : SubSeq(s, i, i + Len(sub) - 1) = sub

UpperCase == "ABCDEFGHIJKLMNOPQRSTUVWXYZ"
LowerCase == "abcdefghijklmnopqrstuvwxyz"

\* the lower-case letter of each upper-case one
LowerOf == [c \in {Char(UpperCase, i) : i \in 1..Len(UpperCase)} |->
               Char(LowerCase, CHOOSE i \in 1..Len(UpperCase) : Char(UpperCase, i) = c)]

lower_char(c) == IF c \in DOMAIN LowerOf THEN LowerOf[c] ELSE c

\* str.lower()
RECURSIVE lower(_)
lower(s) ==
    IF Len(s) = 0 THEN ""
    ELSE IF Len(s) = 1 THEN lower_char(s)
    ELSE lower(SubSeq(s, 1, Len(s) \div 2)) \o lower(SubSeq(s, Len(s) \div 2 + 1, Len(s)))

\* every string of exactly n characters of the alphabet A
RECURSIVE StringsOfLen(_, _)
StringsOfLen(A, n) ==
    IF n = 0 THEN {""} ELSE {c \o s : c \in A, s \in StringsOfLen(A, n - 1)}

StringsUpTo(A, n) == UNION {StringsOfLen(A, k) : k \in 0..n}

(***************************************************************************)
(* Adapter registry (adapters/__init__.py)                                 *)
(***************************************************************************)
AdapterClasses == {"PythonAdapter", "TypeScriptAdapter", "GoAdapter", "RustAdapter"}

ADAPTERS ==
    [python     |-> "PythonAdapter",
     typescript |-> "TypeScriptAdapter",
     javascript |-> "TypeScriptAdapter",
     go         |-> "GoAdapter",
     rust       |-> "RustAdapter"]

\* dict.get(key): None on a miss
ADAPTERS_get(key) == IF key \in DOMAIN ADAPTERS THEN ADAPTERS[key] ELSE None

\* adapter_class(): calling None raises TypeError, a class yields an instance
Instantiate(adapter_class) ==
    IF adapter_class = None THEN Raise("TypeError")
    ELSE Return([class |-> adapter_class])

\* a plausible bug: ADAPTERS[language] with no fallback chain
get_language_adapter_strict(name) ==
    LET lang == lower(name) IN
    IF lang \in DOMAIN ADAPTERS THEN Instantiate(ADAPTERS[lang]) ELSE Raise("KeyError")

\* a plausible bug: the "go" test placed before the "python" test
get_language_adapter_go_first(name) ==
    LET lang == lower(name)
        adapter_class == ADAPTERS_get(lang)
        fallback ==
            IF Contains(lang, "go") THEN "GoAdapter"
            ELSE IF Contains(lang, "python") THEN "PythonAdapter"
            ELSE IF \E js \in {"typescript", "javascript", "node", "react"} :
                        Contains(lang, js) THEN "TypeScriptAdapter"
            ELSE IF Contains(lang, "rust") THEN "RustAdapter"
            ELSE "PythonAdapter"
    IN  Instantiate(IF adapter_class = None THEN fallback ELSE adapter_class)

get_language_adapter(name) ==
    LET lang == lower(name)
        adapter_class == ADAPTERS_get(lang)
        fallback ==
            IF Contains(lang, "python") THEN "PythonAdapter"
            ELSE IF \E js \in {"typescript", "javascript", "node", "react"} :
                        Contains(lang, js) THEN "TypeScriptAdapter"
            ELSE IF Contains(lang, "go") THEN "GoAdapter"
            ELSE IF Contains(lang, "rust") THEN "RustAdapter"
            ELSE "PythonAdapter"
    IN  Instantiate(IF adapter_class = None THEN fallback ELSE adapter_class)

\* a plausible bug: the display name instead of the registry key
PythonAdapter_language_display == "Python"

PythonAdapter_language == "python"
TypeScriptAdapter_language == "typescript"
GoAdapter_language == "go"
RustAdapter_language == "rust"

\* the `language` property of an adapter instance
AdapterLanguage(instance) ==
    CASE instance.class = "PythonAdapter"     -> PythonAdapter_language
      [] instance.class = "TypeScriptAdapter" -> TypeScriptAdapter_language
      [] instance.class = "GoAdapter"         -> GoAdapter_language
      [] instance.class = "RustAdapter"       -> RustAdapter_language

(***************************************************************************)
(* Registry: inputs and specification                                      *)
(***************************************************************************)
MaxNameLen == 3

NameAlphabet == {"g", "o", "G", "x"}

LanguageNames ==
    StringsUpTo(NameAlphabet, MaxNameLen)
    \cup {"python", "Python", "PYTHON", "typescript", "TypeScript", "javascript",
          "JavaScript", "go", "Go", "rust", "Rust", "python3", "cpython",
          "python-django", "go-python", "nodejs", "node", "react", "React Native",
          "reactjs-go", "golang", "GOLANG", "cargo", "rust-lang", "rusty-go",
          "mongodb", "java", "c++", "cobol", "ruby", " python ", "typescript-rust"}

InitRegistry ==
    /\ language \in LanguageNames
    /\ adapter = NotCalled
    /\ project = Idle /\ scores = Idle /\ detected = NotCalled
    /\ command = Idle /\ host = Idle /\ invocation = NotCalled /\ probe = NotCalled
    /\ policy = Idle /\ measured = 0 /\ verdict = NotCalled
    /\ raw = Idle /\ parsed = NotParsed
    /\ orchestrator_config = Idle /\ acceptance = NotCalled /\ verdicts = NotCalled /\ accepted = NotCalled
    /\ objects = << >> /\ threads = Idle
    /\ catalog = Idle /\ configs = << >>
    /\ source = Idle /\ ceiling = 0 /\ measure = NotMeasured
    /\ manifests = Idle /\ dependencies = NotCalled
    /\ ledger = Idle /\ history = << >>

\* a caller resolves the name
Resolve ==
    /\ ~Called(adapter)
    /\ adapter' = get_language_adapter(language)
    /\ UNCHANGED <<language, classifierVars, invokerVars, gateVars, parserVars, pipelineVars, sharingVars, catalogVars, heuristicVars, dependencyVars, ledgerVars>>

NextRegistry == Resolve

SpecRegistry == InitRegistry /\ [][NextRegistry]_vars

(***************************************************************************)
(* C1, C2: claims about the registry                                       *)
(***************************************************************************)
KnownLanguages == {"python", "typescript", "javascript", "go", "rust"}
FuzzyKeys == {"python", "typescript", "javascript", "node", "react", "go", "rust"}

NoRuleApplies(name) ==
    /\ lower(name) \notin KnownLanguages
    /\ \A k \in FuzzyKeys : ~Contains(lower(name), k)

\* C1: for every string, get_language_adapter returns an adapter instance and
\* raises nothing; a name matching neither the known set nor any fuzzy rule
\* yields the Python adapter.
C1_RegistryTotal ==
    Called(adapter) =>
        /\ adapter.exc = "none"
        /\ adapter.value.class \in AdapterClasses
        /\ NoRuleApplies(language) => adapter.value.class = "PythonAdapter"

C1_Witness ==
    /\ language \in {"", "cobol"}
    /\ Called(adapter)
    /\ adapter.exc = "none"
    /\ adapter.value.class = "PythonAdapter"

\* The resolution rules in the order the claim gives them: the exact match of
\* the whole lower-cased name first, then the substring rules.
RegistryRules ==
    << [exact |-> TRUE,  keys |-> {"python"},                   class |-> "PythonAdapter"],
       [exact |-> TRUE,  keys |-> {"typescript", "javascript"}, class |-> "TypeScriptAdapter"],
       [exact |-> TRUE,  keys |-> {"go"},                       class |-> "GoAdapter"],
       [exact |-> TRUE,  keys |-> {"rust"},                     class |-> "RustAdapter"],
       [exact |-> FALSE, keys |-> {"python"},                   class |-> "PythonAdapter"],
       [exact |-> FALSE, keys |-> {"typescript", "javascript", "node", "react"},
                                                                class |-> "TypeScriptAdapter"],
       [exact |-> FALSE, keys |-> {"go"},                       class |-> "GoAdapter"],
       [exact |-> FALSE, keys |-> {"rust"},                     class |-> "RustAdapter"] >>

RuleApplies(rule, name) ==
    IF rule.exact THEN lower(name) \in rule.keys
    ELSE \E k \in rule.keys : Contains(lower(name), k)

FirstRuleClass(name) ==
    LET hits == {i \in 1..Len(RegistryRules) : RuleApplies(RegistryRules[i], name)} IN
    IF hits = {} THEN "PythonAdapter"
    ELSE RegistryRules[CHOOSE i \in hits : \A j \in hits : i <= j].class

\* C2: the adapter returned is the one selected by the first rule that
\* applies: exact case-insensitive match, then contains python, then
\* typescript/javascript/node/react, then go, then rust, otherwise Python.
C2_ResolutionOrder ==
    Called(adapter) =>
        /\ adapter.exc = "none"
        /\ adapter.value.class = FirstRuleClass(language)

\* a name that two substring rules match: python wins over go
C2_Witness ==
    /\ language = "python-django"
    /\ Called(adapter)
    /\ adapter.value.class = "PythonAdapter"
    /\ RuleApplies(RegistryRules[7], language)

(***************************************************************************)
(* Template catalog (init.py).  Numbers of the metric policies are in      *)
(* hundredths (80 is 8000, 0.85 is 85), so that the one fractional target  *)
(* of the catalog stays an integer.                                        *)
(***************************************************************************)
PROJECT_TEMPLATES ==
    << [name |-> "python_ml",
        indicators |-> <<"requirements.txt", "setup.py", "pyproject.toml">>,
        keywords |-> <<"tensorflow", "torch", "sklearn", "numpy", "pandas", "jupyter">>,
        config |-> [
            language |-> "python",
            project_type |-> "ml",
            tools |-> [lint |-> "ruff check .", format |-> "ruff format .",
                       test |-> "pytest --cov=src tests/",
                       security |-> "bandit -r src/ && safety check",
                       typecheck |-> "mypy src/"],
            metrics |-> [
                performance |-> [
                    training_time     |-> [target |-> -1000, cap |-> 2000, unit |-> "%"],
                    inference_latency |-> [target |-> -500, cap |-> 1500, unit |-> "%"],
                    memory_usage      |-> [target |-> 0, cap |-> 2000, unit |-> "%"]],
                quality |-> [
                    test_coverage  |-> [target |-> 8000, absolute |-> TRUE, unit |-> "%"],
                    model_accuracy |-> [target |-> 85, absolute |-> TRUE, unit |-> "score"]]]]],
       [name |-> "python_api",
        indicators |-> <<"requirements.txt", "app.py", "main.py", "manage.py">>,
        keywords |-> <<"fastapi", "django", "flask", "uvicorn", "gunicorn">>,
        config |-> [
            language |-> "python",
            project_type |-> "api",
            tools |-> [lint |-> "ruff check .", format |-> "ruff format .",
                       test |-> "pytest --cov=. tests/",
                       security |-> "bandit -r . && safety check",
                       typecheck |-> "mypy ."],
            metrics |-> [
                performance |-> [
                    response_time |-> [target |-> -500, cap |-> 1000, unit |-> "%"],
                    throughput    |-> [target |-> 500, cap |-> -1000, unit |-> "%"],
                    memory_usage  |-> [target |-> 0, cap |-> 1500, unit |-> "%"]]]]],
       [name |-> "typescript_node",
        indicators |-> <<"package.json", "tsconfig.json">>,
        keywords |-> <<"typescript", "node", "express", "nestjs">>,
        config |-> [
            language |-> "typescript",
            project_type |-> "node",
            tools |-> [lint |-> "eslint . --max-warnings 0", format |-> "prettier --write .",
                       test |-> "vitest --run --coverage",
                       security |-> "npm audit && semgrep --config auto",
                       typecheck |-> "tsc --noEmit", build |-> "npm run build"],
            metrics |-> [
                performance |-> [
                    response_time |-> [target |-> -500, cap |-> 1000, unit |-> "%"],
                    memory_usage  |-> [target |-> 0, cap |-> 1500, unit |-> "%"],
                    bundle_size   |-> [target |-> 0, cap |-> 500, unit |-> "%"]]]]],
       [name |-> "react_frontend",
        indicators |-> <<"package.json", "src/App.tsx", "src/App.jsx", "public/index.html">>,
        keywords |-> <<"react", "next", "vite", "webpack">>,
        config |-> [
            language |-> "typescript",
            project_type |-> "frontend",
            tools |-> [lint |-> "eslint . --max-warnings 0", format |-> "prettier --write .",
                       test |-> "vitest --run --coverage", security |-> "npm audit",
                       typecheck |-> "tsc --noEmit", build |-> "npm run build"],
            metrics |-> [
                performance |-> [
                    bundle_size |-> [target |-> 0, cap |-> 500, unit |-> "%"],
                    lighthouse_performance |->
                        [target |-> 9000, absolute |-> TRUE, unit |-> "score"],
                    first_contentful_paint |->
                        [target |-> -1000, cap |-> 1000, unit |-> "%"]]]]],
       [name |-> "go_service",
        indicators |-> <<"go.mod", "main.go">>,
        keywords |-> <<"gin", "echo", "chi", "gorilla", "grpc">>,
        config |-> [
            language |-> "go",
            project_type |-> "service",
            tools |-> [lint |-> "golangci-lint run", format |-> "gofmt -w . && goimports -w .",
                       test |-> "go test -v -race -cover ./...", security |-> "gosec ./...",
                       build |-> "go build -o bin/ ./..."],
            metrics |-> [
                performance |-> [
                    response_time |-> [target |-> -500, cap |-> 1000, unit |-> "%"],
                    memory_usage  |-> [target |-> 0, cap |-> 1500, unit |-> "%"],
                    binary_size   |-> [target |-> 0, cap |-> 1000, unit |-> "%"]]]]],
       [name |-> "rust_project",
        indicators |-> <<"Cargo.toml", "src/main.rs", "src/lib.rs">>,
        keywords |-> <<"tokio", "serde", "clap", "actix", "warp">>,
        config |-> [
            language |-> "rust",
            project_type |-> "application",
            tools |-> [lint |-> "cargo clippy -- -D warnings", format |-> "cargo fmt",
                       test |-> "cargo test", security |-> "cargo audit",
                       build |-> "cargo build --release"],
            metrics |-> [
                performance |-> [
                    compile_time |-> [target |-> -500, cap |-> 2000, unit |-> "%"],
                    binary_size  |-> [target |-> 0, cap |-> 1000, unit |-> "%"],
                    memory_usage |-> [target |-> -1000, cap |-> 500, unit |-> "%"]]]]] >>

TemplateNames(templates) == {templates[i].name : i \in 1..Len(templates)}

\* PROJECT_TEMPLATES[name]
TemplateNamed(templates, name) ==
    templates[CHOOSE i \in 1..Len(templates) : templates[i].name = name]

(***************************************************************************)
(* Project type classifier (init.py, detect_project_type).                 *)
(*                                                                         *)
(* A project is a snapshot of the tree under project_path:                 *)
(*   path    str(project_path)                                             *)
(*   access  "ok"; "unlistable" (no read permission on the directory: it   *)
(*           cannot be listed, its entries can be opened); "unsearchable"  *)
(*           (no search permission: its entries cannot be reached)         *)
(*   files   the regular files, each [dir, name] with dir the directory    *)
(*           relative to project_path ("" for project_path itself)         *)
(*   content the text of each file of project_path, [readable, text]       *)
(***************************************************************************)
CountChar(s, c) == Cardinality({i \in 1..Len(s) : Char(s, i) = c})

\* the `root` os.walk yields for the directory dir under project_path
walk_root(path, dir) == IF dir = "" THEN path ELSE path \o "/" \o dir

IgnorePatterns == {".git", "node_modules", "__pycache__", ".venv"}

\* lines 167-170: whether the files of the directory are collected
Collected(path, dir) ==
    LET root == walk_root(path, dir) IN
    /\ ~\E ignore \in IgnorePatterns : Contains(root, ignore)
    /\ ~(CountChar(root, "/") - CountChar(path, "/") > 3)

\* lines 164-172; os.walk yields nothing for a directory it cannot list
files_in_project(p) ==
    IF p.access # "ok" THEN {}
    ELSE {f.name : f \in {g \in p.files : Collected(p.path, g.dir)}}

ManifestFiles == <<"package.json", "requirements.txt", "Cargo.toml", "go.mod", "pyproject.toml">>

\* (project_path / file_name).exists()
manifest_exists(p, file_name) ==
    /\ p.access # "unsearchable"
    /\ \E f \in p.files : f.dir = "" /\ f.name = file_name

\* lines 175-186: the templates one of whose keywords occurs in a manifest
\* that exists and can be read
keywords_found(templates, p) ==
    UNION {
        LET content == lower(p.content[ManifestFiles[m]].text) IN
        {templates[t].name : t \in
            {u \in 1..Len(templates) :
                \E k \in 1..Len(templates[u].keywords) :
                    Contains(content, templates[u].keywords[k])}} :
        m \in {n \in 1..Len(ManifestFiles) :
                 /\ manifest_exists(p, ManifestFiles[n])
                 /\ p.content[ManifestFiles[n]].readable}}

\* a plausible bug: the keyword bonus counted as one more indicator
template_score_flat(template, files, found) ==
    3 * Cardinality({i \in 1..Len(template.indicators) : template.indicators[i] \in files})
    + (IF template.name \in found THEN 3 ELSE 0)

\* lines 191-200
template_score(template, files, found) ==
    3 * Cardinality({i \in 1..Len(template.indicators) : template.indicators[i] \in files})
    + (IF template.name \in found THEN 5 ELSE 0)

\* lines 189-202: the dict `scores`
compute_scores(templates, p) ==
    LET files == files_in_project(p)
        found == keywords_found(templates, p)
    IN  [name \in TemplateNames(templates) |->
            template_score(TemplateNamed(templates, name), files, found)]

MaxScore(sc) == CHOOSE v \in {sc[n] : n \in DOMAIN sc} : \A n \in DOMAIN sc : sc[n] <= v

\* max(scores, key=scores.get): the first key, in the order of the dict,
\* whose value is the greatest
first_max(templates, sc) ==
    templates[CHOOSE i \in 1..Len(templates) :
                /\ sc[templates[i].name] = MaxScore(sc)
                /\ \A j \in 1..(i - 1) : sc[templates[j].name] # MaxScore(sc)].name

\* a plausible bug: the last of the templates, not the best
best_match_last(templates, sc) ==
    IF Len(templates) > 0 /\ MaxScore(sc) > 0 THEN templates[Len(templates)].name
    ELSE "python_api"

\* lines 204-208
best_match(templates, sc) ==
    IF Len(templates) > 0 /\ MaxScore(sc) > 0 THEN first_max(templates, sc)
    ELSE "python_api"

\* detect_project_type.  Path.exists() (line 178) is called outside the try
\* block: in a directory without search permission stat() fails with EACCES,
\* which the pathlib of the Python versions setup.py lists (3.8 to 3.11)
\* re-raises as PermissionError; a pathlib that answers False for every
\* OSError is the other outcome.  stat_raises is the interpreter's choice.
detect_project_type(templates, p, stat_raises) ==
    IF p.access = "unsearchable" /\ stat_raises THEN Raise("PermissionError")
    ELSE Return(best_match(templates, compute_scores(templates, p)))

(***************************************************************************)
(* Classifier: inputs and specification                                    *)
(***************************************************************************)
MaxProjectFiles == 2

FileUniverse ==
    {[dir |-> "", name |-> "requirements.txt"],
     [dir |-> "", name |-> "package.json"],
     [dir |-> "", name |-> "Cargo.toml"],
     [dir |-> "", name |-> "go.mod"],
     [dir |-> "src", name |-> "main.rs"],
     [dir |-> "src", name |-> "App.tsx"],
     [dir |-> "public", name |-> "index.html"],
     [dir |-> "a/b/c/d", name |-> "main.go"],
     [dir |-> "node_modules/pkg", name |-> "setup.py"]}

ProjectPaths == {"/work/app", "/srv/.github/app"}

FileContents ==
    {[readable |-> TRUE, text |-> ""],
     [readable |-> TRUE, text |-> "tokio = 1"],
     [readable |-> TRUE, text |-> "Flask==2.0"],
     [readable |-> TRUE, text |-> "react-dom"],
     [readable |-> FALSE, text |-> ""]}

RootFileNames(files) == {f.name : f \in {g \in files : g.dir = ""}}

Projects ==
    UNION {
        {[path |-> pa, access |-> a, files |-> fs, content |-> c] :
            pa \in ProjectPaths,
            a \in {"ok", "unlistable", "unsearchable"},
            c \in [RootFileNames(fs) -> FileContents]} :
        fs \in {x \in SUBSET FileUniverse : Cardinality(x) <= MaxProjectFiles}}

InitClassifier ==
    /\ project \in Projects
    /\ scores = Idle
    /\ detected = NotCalled
    /\ language = Idle
    /\ adapter = NotCalled
    /\ command = Idle /\ host = Idle /\ invocation = NotCalled /\ probe = NotCalled
    /\ policy = Idle /\ measured = 0 /\ verdict = NotCalled
    /\ raw = Idle /\ parsed = NotParsed
    /\ orchestrator_config = Idle /\ acceptance = NotCalled /\ verdicts = NotCalled /\ accepted = NotCalled
    /\ objects = << >> /\ threads = Idle
    /\ catalog = Idle /\ configs = << >>
    /\ source = Idle /\ ceiling = 0 /\ measure = NotMeasured
    /\ manifests = Idle /\ dependencies = NotCalled
    /\ ledger = Idle /\ history = << >>

\* detect_project_type(project_path)
Detect ==
    /\ ~Called(detected)
    /\ \E stat_raises \in BOOLEAN :
           detected' = detect_project_type(PROJECT_TEMPLATES, project, stat_raises)
    /\ scores' = compute_scores(PROJECT_TEMPLATES, project)
    /\ UNCHANGED <<project, registryVars, invokerVars, gateVars, parserVars, pipelineVars, sharingVars, catalogVars, heuristicVars, dependencyVars, ledgerVars>>

\* the caller reads the language the detected template declares and resolves it
ResolveDetected ==
    /\ Called(detected) /\ detected.exc = "none"
    /\ ~Called(adapter)
    /\ language' = TemplateNamed(PROJECT_TEMPLATES, detected.value).config.language
    /\ adapter' = get_language_adapter(language')
    /\ UNCHANGED <<classifierVars, invokerVars, gateVars, parserVars, pipelineVars, sharingVars, catalogVars, heuristicVars, dependencyVars, ledgerVars>>

NextClassifier == Detect \/ ResolveDetected

SpecClassifier == InitClassifier /\ [][NextClassifier]_vars

(***************************************************************************)
(* C3, C8, C9: claims about the classifier                                 *)
(***************************************************************************)
RoundTrip(declared) ==
    LET resolved == get_language_adapter(declared) IN
    /\ resolved.exc = "none"
    /\ AdapterLanguage(resolved.value) = declared

\* the round trip of every template of the catalog
CatalogRoundTrips ==
    \A i \in 1..Len(PROJECT_TEMPLATES) : RoundTrip(PROJECT_TEMPLATES[i].config.language)

\* C3: the language declared by the template detect_project_type returns,
\* resolved through get_language_adapter, yields an adapter whose language
\* property is that declared language; so it does for every template of the
\* catalog.
C3_RoundTrip ==
    /\ Called(adapter) =>
          /\ language = TemplateNamed(PROJECT_TEMPLATES, detected.value).config.language
          /\ adapter.exc = "none"
          /\ AdapterLanguage(adapter.value) = language
    /\ CatalogRoundTrips

C3_Witness ==
    /\ Called(adapter)
    /\ detected.value = "python_api"
    /\ language = "python"
    /\ AdapterLanguage(adapter.value) = "python"

\* an indicator is present when a collected file carries its name or, for a
\* path-style indicator, lies at that path below project_path
IndicatorPresent(indicator, p) ==
    /\ p.access = "ok"
    /\ \E f \in p.files :
          /\ Collected(p.path, f.dir)
          /\ \/ f.name = indicator
             \/ f.dir # "" /\ (f.dir \o "/" \o f.name) = indicator

ClaimedScore(template, p) ==
    3 * Cardinality({i \in 1..Len(template.indicators) :
                        IndicatorPresent(template.indicators[i], p)})
    + (IF template.name \in keywords_found(PROJECT_TEMPLATES, p) THEN 5 ELSE 0)

\* C8: every template's score is 3 x (number of its file indicators present
\* in the project, path-style indicators such as src/main.rs included) + 5 if
\* one of its keywords occurs in a root manifest; so Cargo.toml with
\* src/main.rs scores 6 for rust_project, and 11 with the keyword tokio.
C8_ClassificationScore ==
    Called(detected) =>
        \A i \in 1..Len(PROJECT_TEMPLATES) :
            scores[PROJECT_TEMPLATES[i].name] = ClaimedScore(PROJECT_TEMPLATES[i], project)

\* C9: detect_project_type returns the name of a template whose score is
\* maximal when some score is positive, and python_api when every score is
\* zero, an empty or unreadable directory included.
C9_ClassifierResult ==
    Called(detected) =>
        /\ detected.exc = "none"
        /\ detected.value \in TemplateNames(PROJECT_TEMPLATES)
        /\ MaxScore(scores) > 0 => scores[detected.value] = MaxScore(scores)
        /\ MaxScore(scores) = 0 => detected.value = "python_api"

(***************************************************************************)
(* Tool invoker (adapters/base.py, test_tool and run_command)              *)
(***************************************************************************)
Whitespace == {" ", "\t", "\n"}

\* the first index from i on whose character is (is not) whitespace, or
\* Len(s) + 1
NextWhitespace(s, i) ==
    LET at == {j \in i..Len(s) : Char(s, j) \in Whitespace} IN
    IF at = {} THEN Len(s) + 1 ELSE CHOOSE j \in at : \A k \in at : j <= k

NextWord(s, i) ==
    LET at == {j \in i..Len(s) : Char(s, j) \notin Whitespace} IN
    IF at = {} THEN Len(s) + 1 ELSE CHOOSE j \in at : \A k \in at : j <= k

RECURSIVE split_from(_, _)
split_from(s, i) ==
    LET a == NextWord(s, i) IN
    IF a > Len(s) THEN << >>
    ELSE LET b == NextWhitespace(s, a) IN <<SubSeq(s, a, b - 1)>> \o split_from(s, b)

\* str.split(): the words between runs of whitespace
split(s) == split_from(s, 1)

\* subprocess.run(argv, capture_output=True, text=True, timeout=timeout) on a
\* machine where the executable argv[0] is missing, cannot be executed, or
\* runs for host.duration seconds and exits with host.returncode
subprocess_run(argv, timeout, h) ==
    IF Len(argv) = 0 THEN Raise("IndexError")
    ELSE IF h.status = "missing" THEN Raise("FileNotFoundError")
    ELSE IF h.status = "denied" THEN Raise("PermissionError")
    ELSE IF h.duration > timeout THEN Raise("TimeoutExpired")
    ELSE Return([args |-> argv, returncode |-> h.returncode])

\* the exceptions the except clause of test_tool names, with the subclasses
\* of subprocess.SubprocessError
CaughtByTestTool == {"TimeoutExpired", "FileNotFoundError", "SubprocessError",
                     "CalledProcessError"}

\* BaseAdapter.test_tool
test_tool(cmd, h) ==
    LET tool_parts == split(cmd) IN
    IF Len(tool_parts) = 0 THEN Return(FALSE)
    ELSE LET result == subprocess_run(<<tool_parts[1], "--version">>, 10, h) IN
         IF result.exc = "none" THEN Return(result.value.returncode = 0)
         ELSE IF result.exc \in CaughtByTestTool THEN Return(FALSE)
         ELSE result

\* BaseAdapter.run_command: no except clause, what subprocess.run raises
\* leaves the method
run_command(cmd, h) == subprocess_run(split(cmd), 300, h)

\* PythonAdapter.default_tools
PythonAdapter_default_tools ==
    [test         |-> "pytest --cov=. tests/",
     lint         |-> "ruff check .",
     format       |-> "ruff format .",
     typecheck    |-> "mypy .",
     security     |-> "bandit -r . -f json",
     dependencies |-> "safety check"]

(***************************************************************************)
(* Invoker: inputs and specification                                       *)
(***************************************************************************)
MaxBlankLen == 2

Commands ==
    {PythonAdapter_default_tools[role] : role \in DOMAIN PythonAdapter_default_tools}
    \cup StringsUpTo({" ", "\t", "a"}, MaxBlankLen)
    \cup {"nonexistent-tool --flag", "  pytest   -q\ttests/ ", "cargo test", "npm audit"}

Hosts ==
    {[status |-> "missing", duration |-> 0, returncode |-> 0],
     [status |-> "denied", duration |-> 0, returncode |-> 0]}
    \cup {[status |-> "runs", duration |-> d, returncode |-> rc] :
            d \in {1, 60, 600}, rc \in {0, 1, 2}}

InitInvoker ==
    /\ command \in Commands
    /\ host \in Hosts
    /\ invocation = NotCalled
    /\ probe = NotCalled
    /\ language = Idle /\ adapter = NotCalled
    /\ project = Idle /\ scores = Idle /\ detected = NotCalled
    /\ policy = Idle /\ measured = 0 /\ verdict = NotCalled
    /\ raw = Idle /\ parsed = NotParsed
    /\ orchestrator_config = Idle /\ acceptance = NotCalled /\ verdicts = NotCalled /\ accepted = NotCalled
    /\ objects = << >> /\ threads = Idle
    /\ catalog = Idle /\ configs = << >>
    /\ source = Idle /\ ceiling = 0 /\ measure = NotMeasured
    /\ manifests = Idle /\ dependencies = NotCalled
    /\ ledger = Idle /\ history = << >>

\* adapter.test_tool(command)
TestTool ==
    /\ ~Called(probe)
    /\ probe' = test_tool(command, host)
    /\ UNCHANGED <<command, host, invocation, registryVars, classifierVars, gateVars, parserVars, pipelineVars, sharingVars, catalogVars, heuristicVars, dependencyVars, ledgerVars>>

\* adapter.run_command(command)
RunCommand ==
    /\ ~Called(invocation)
    /\ invocation' = run_command(command, host)
    /\ UNCHANGED <<command, host, probe, registryVars, classifierVars, gateVars, parserVars, pipelineVars, sharingVars, catalogVars, heuristicVars, dependencyVars, ledgerVars>>

NextInvoker == TestTool \/ RunCommand

SpecInvoker == InitInvoker /\ [][NextInvoker]_vars

(***************************************************************************)
(* C4: claim about the invoker                                             *)
(***************************************************************************)
\* C4: a command whose first token names an executable that does not exist
\* ends, through run_command, in a failure outcome handed to the caller as a
\* result; no exception leaves the invoker.
C4_MissingExecutable ==
    (Called(invocation) /\ Len(split(command)) > 0 /\ host.status = "missing")
        => invocation.exc = "none"

(***************************************************************************)
(* C13, C14: claims about timeouts and the availability probe              *)
(***************************************************************************)
\* a machine without the executable, and one where it runs and fails
MissingHost == [status |-> "missing", duration |-> 0, returncode |-> 0]
FailingHost == [status |-> "runs", duration |-> 1, returncode |-> 1]

\* the command names an executable, which ran into the timeout
TimeoutFired(timeout) ==
    Len(split(command)) > 0 /\ host.status = "runs" /\ host.duration > timeout

\* C13: an invocation whose timeout fired (10 s for test_tool, 300 s for
\* run_command) returns control to the caller with an outcome that tells the
\* timeout from a missing executable (ToolUnavailable) and from a failed
\* execution (ToolExecutionError).
C13_BoundedInvocation ==
    /\ (Called(probe) /\ TimeoutFired(10)) =>
          /\ probe # test_tool(command, MissingHost)
          /\ probe # test_tool(command, FailingHost)
    /\ (Called(invocation) /\ TimeoutFired(300)) =>
          /\ invocation # run_command(command, MissingHost)
          /\ invocation # run_command(command, FailingHost)

\* C14: test_tool returns true iff the first word of the command, run with
\* --version, exits with code zero within the probe's timeout; for a blank
\* command, a missing executable, a timeout or any other failure to launch
\* it returns false and does not raise.
C14_AvailabilityProbe ==
    Called(probe) =>
        /\ probe.exc = "none"
        /\ probe.value = (/\ Len(split(command)) > 0
                          /\ host.status = "runs"
                          /\ host.duration <= 10
                          /\ host.returncode = 0)

(***************************************************************************)
(* Metric gate evaluator.  The catalog of policies is in the source        *)
(* (PythonAdapter.default_metrics, PROJECT_TEMPLATES); evaluate itself is  *)
(* in orchestrator/core.py, which cli.py imports, and is modelled from     *)
(* section 4.6 of the specification.  Values are in hundredths.            *)
(***************************************************************************)
\* a plausible bug: the coverage threshold of another release
PythonAdapter_default_metrics_lax ==
    [performance |-> [
        execution_time |-> [target |-> -500, cap |-> 1500, unit |-> "%"],
        memory_usage   |-> [target |-> 0, cap |-> 2000, unit |-> "%"],
        import_time    |-> [target |-> -1000, cap |-> 1000, unit |-> "%"]],
     quality |-> [
        test_coverage         |-> [target |-> 7000, absolute |-> TRUE, unit |-> "%"],
        cyclomatic_complexity |-> [target |-> 1000, absolute |-> TRUE, unit |-> "max"],
        maintainability_index |-> [target |-> 7000, absolute |-> TRUE, unit |-> "score"]],
     security |-> [
        bandit_issues              |-> [target |-> 0, absolute |-> TRUE, unit |-> "count"],
        dependency_vulnerabilities |-> [target |-> 0, absolute |-> TRUE, unit |-> "count"]]]

\* a plausible bug: target and cap of execution_time written the other way round
PythonAdapter_default_metrics_swapped ==
    [performance |-> [
        execution_time |-> [target |-> 1500, cap |-> -500, unit |-> "%"],
        memory_usage   |-> [target |-> 0, cap |-> 2000, unit |-> "%"],
        import_time    |-> [target |-> -1000, cap |-> 1000, unit |-> "%"]],
     quality |-> [
        test_coverage         |-> [target |-> 8000, absolute |-> TRUE, unit |-> "%"],
        cyclomatic_complexity |-> [target |-> 1000, absolute |-> TRUE, unit |-> "max"],
        maintainability_index |-> [target |-> 7000, absolute |-> TRUE, unit |-> "score"]],
     security |-> [
        bandit_issues              |-> [target |-> 0, absolute |-> TRUE, unit |-> "count"],
        dependency_vulnerabilities |-> [target |-> 0, absolute |-> TRUE, unit |-> "count"]]]

\* PythonAdapter.default_metrics
PythonAdapter_default_metrics ==
    [performance |-> [
        execution_time |-> [target |-> -500, cap |-> 1500, unit |-> "%"],
        memory_usage   |-> [target |-> 0, cap |-> 2000, unit |-> "%"],
        import_time    |-> [target |-> -1000, cap |-> 1000, unit |-> "%"]],
     quality |-> [
        test_coverage         |-> [target |-> 8000, absolute |-> TRUE, unit |-> "%"],
        cyclomatic_complexity |-> [target |-> 1000, absolute |-> TRUE, unit |-> "max"],
        maintainability_index |-> [target |-> 7000, absolute |-> TRUE, unit |-> "score"]],
     security |-> [
        bandit_issues              |-> [target |-> 0, absolute |-> TRUE, unit |-> "count"],
        dependency_vulnerabilities |-> [target |-> 0, absolute |-> TRUE, unit |-> "count"]]]

\* policy.get("absolute", False)
IsAbsolute(rule) == "absolute" \in DOMAIN rule /\ rule.absolute

\* evaluate(measuredValue, policy) of section 4.6: an absolute policy passes
\* iff the value meets or exceeds the target; a relative policy passes iff
\* the delta is at or beyond the target in the favourable direction and
\* within the cap, the favourable direction being the one from cap to target
evaluate(measuredValue, rule) ==
    IF IsAbsolute(rule)
    THEN Return([pass |-> measuredValue >= rule.target,
                 delta |-> measuredValue - rule.target])
    ELSE IF rule.target <= rule.cap
    THEN Return([pass |-> measuredValue <= rule.target /\ measuredValue <= rule.cap,
                 delta |-> measuredValue - rule.target])
    ELSE Return([pass |-> measuredValue >= rule.target /\ measuredValue >= rule.cap,
                 delta |-> measuredValue - rule.target])

(***************************************************************************)
(* Gate: inputs and specification                                          *)
(***************************************************************************)
\* the metrics mappings of the catalog, by where they are declared
MetricSources ==
    [n \in TemplateNames(PROJECT_TEMPLATES) \cup {"PythonAdapter"} |->
        IF n = "PythonAdapter" THEN PythonAdapter_default_metrics
        ELSE TemplateNamed(PROJECT_TEMPLATES, n).config.metrics]

PolicyRefs ==
    UNION {UNION {{[source |-> src, category |-> cat, name |-> nm] :
                     nm \in DOMAIN MetricSources[src][cat]} :
                  cat \in DOMAIN MetricSources[src]} :
           src \in DOMAIN MetricSources}

PolicyOf(ref) ==
    [source |-> ref.source, name |-> ref.name,
     rule |-> MetricSources[ref.source][ref.category][ref.name]]

\* measured values around the target, 0.1 being the finest step
MeasuredOffsets == {-1000, -100, -10, 0, 10, 500}

\* the values a policy is tried on: around its target and around its cap
MeasuredValues(rule) ==
    {rule.target + d : d \in MeasuredOffsets}
    \cup (IF "cap" \in DOMAIN rule THEN {rule.cap + d : d \in MeasuredOffsets} ELSE {})

InitGate ==
    /\ \E ref \in PolicyRefs :
          /\ policy = PolicyOf(ref)
          /\ measured \in MeasuredValues(policy.rule)
    /\ verdict = NotCalled
    /\ language = Idle /\ adapter = NotCalled
    /\ project = Idle /\ scores = Idle /\ detected = NotCalled
    /\ command = Idle /\ host = Idle /\ invocation = NotCalled /\ probe = NotCalled
    /\ raw = Idle /\ parsed = NotParsed
    /\ orchestrator_config = Idle /\ acceptance = NotCalled /\ verdicts = NotCalled /\ accepted = NotCalled
    /\ objects = << >> /\ threads = Idle
    /\ catalog = Idle /\ configs = << >>
    /\ source = Idle /\ ceiling = 0 /\ measure = NotMeasured
    /\ manifests = Idle /\ dependencies = NotCalled
    /\ ledger = Idle /\ history = << >>

\* evaluate(measured, policy)
Evaluate ==
    /\ ~Called(verdict)
    /\ verdict' = evaluate(measured, policy.rule)
    /\ UNCHANGED <<policy, measured, registryVars, classifierVars, invokerVars, parserVars, pipelineVars, sharingVars, catalogVars, heuristicVars, dependencyVars, ledgerVars>>

NextGate == Evaluate

SpecGate == InitGate /\ [][NextGate]_vars

(***************************************************************************)
(* C10: claim about absolute gates                                         *)
(***************************************************************************)
\* the targets the claim names, in hundredths
ClaimedTargets ==
    [test_coverage |-> 8000, maintainability_index |-> 7000,
     lighthouse_performance |-> 9000, cyclomatic_complexity |-> 1000,
     bandit_issues |-> 0, dependency_vulnerabilities |-> 0]

LowerIsBetter(rule) == rule.target <= rule.cap

AtOrBeyondTarget(delta, rule) ==
    IF LowerIsBetter(rule) THEN delta <= rule.target ELSE delta >= rule.target

WithinCap(delta, rule) ==
    IF LowerIsBetter(rule) THEN delta <= rule.cap ELSE delta >= rule.cap

PyInt(n) == [t |-> "int", v |-> n]
PyBool(b) == [t |-> "bool", v |-> b]
PyStr(s) == [t |-> "str", v |-> s]
PyNone == [t |-> "NoneType", v |-> 0]
PyList(seq) == [t |-> "list", v |-> seq]
PyDict(f) == [t |-> "dict", v |-> f]

\* x == 0
PyEqualsZero(x) == (x.t = "int" /\ x.v = 0) \/ (x.t = "bool" /\ x.v = FALSE)

\* the integer a number-like value counts as in arithmetic
PyNumber(x) == IF x.t = "bool" THEN (IF x.v THEN 1 ELSE 0) ELSE x.v

\* a + b: numbers add, strings and lists concatenate, anything else is a
\* TypeError
PyAdd(a, b) ==
    IF a.t \in {"int", "bool"} /\ b.t \in {"int", "bool"}
    THEN Return(PyInt(PyNumber(a) + PyNumber(b)))
    ELSE IF a.t = b.t /\ a.t \in {"str", "list"} THEN Return([t |-> a.t, v |-> a.v \o b.v])
    ELSE Raise("TypeError")

\* issues_by_type, whose keys can be of any hashable type, is a function from
\* the repr of its keys (True and 1, False and 0 are one key); a dict that
\* json.loads returns has str keys and is a function from them
PyKey(x) ==
    IF x.t \in {"int", "bool"} THEN ToString(PyNumber(x))
    ELSE IF x.t = "str" THEN "'" \o x.v \o "'"
    ELSE "None"

\* obj.get(key, default) with a str key: only a dict has the method
PyGet(obj, key, default) ==
    IF obj.t # "dict" THEN Raise("AttributeError")
    ELSE Return(IF key \in DOMAIN obj.v THEN obj.v[key] ELSE default)

(***************************************************************************)
(* Text scanning shared by the parsers                                     *)
(***************************************************************************)
Min(S) == CHOOSE x \in S : \A y \in S : x <= y

DigitChars == {"0", "1", "2", "3", "4", "5", "6", "7", "8", "9"}
UpperChars == {Char(UpperCase, i) : i \in 1..Len(UpperCase)}
\* the characters \s matches
RegexSpace == {" ", "\t", "\n", "\r", "\f"}

Digits == "0123456789"
DigitValue(c) == (CHOOSE i \in 1..Len(Digits) : Char(Digits, i) = c) - 1

\* int(s) for a string of decimal digits
RECURSIVE int(_)
int(s) ==
    IF Len(s) = 0 THEN 0
    ELSE 10 * int(SubSeq(s, 1, Len(s) - 1)) + DigitValue(Char(s, Len(s)))

\* the last index of the run of characters of `class` that starts at i
\* (i - 1 when s[i] is not of the class)
RunEnd(s, i, class) ==
    LET stop == {j \in i..Len(s) : Char(s, j) \notin class} IN
    IF stop = {} THEN Len(s) ELSE Min(stop) - 1

\* the literal lit stands at index i of s
LiteralAt(s, i, lit) ==
    i >= 1 /\ i + Len(lit) - 1 <= Len(s) /\ SubSeq(s, i, i + Len(lit) - 1) = lit

\* str.split(sep) for a separator of one character
RECURSIVE split_on(_, _)
split_on(s, sep) ==
    LET at == {i \in 1..Len(s) : Char(s, i) = sep} IN
    IF at = {} THEN <<s>>
    ELSE <<SubSeq(s, 1, Min(at) - 1)>> \o split_on(SubSeq(s, Min(at) + 1, Len(s)), sep)

\* U+2713 and U+2717, which a TLA+ string cannot hold, as tokens of text
CHECK_MARK == "<U+2713>"
BALLOT_X == "<U+2717>"

(***************************************************************************)
(* Generic parsers (adapters/base.py)                                      *)
(***************************************************************************)
\* sum(1 for line in lines if ...), over the flags of the lines
CountLines(flags) == Cardinality({i \in DOMAIN flags : flags[i]})

BaseTestPassedLine(line) ==
    Contains(line, "PASSED") \/ Contains(line, "PASS") \/ Contains(line, CHECK_MARK)
BaseTestFailedLine(line) ==
    Contains(line, "FAILED") \/ Contains(line, "FAIL") \/ Contains(line, BALLOT_X)

\* BaseAdapter.parse_test_output
BaseAdapter_parse_test_output(output) ==
    LET lines == split_on(output, "\n")
        passed == CountLines([i \in DOMAIN lines |-> BaseTestPassedLine(lines[i])])
        failed == CountLines([i \in DOMAIN lines |-> BaseTestFailedLine(lines[i])])
    IN  Return([passed |-> PyInt(passed),
                failed |-> PyInt(failed),
                total |-> PyInt(passed + failed),
                success |-> PyBool(failed = 0)])

BaseLintErrorLine(line) == Contains(lower(line), "error")
BaseLintWarningLine(line) == Contains(lower(line), "warning")

\* BaseAdapter.parse_lint_output
BaseAdapter_parse_lint_output(output) ==
    LET lines == split_on(output, "\n")
        errors == CountLines([i \in DOMAIN lines |-> BaseLintErrorLine(lines[i])])
        warnings == CountLines([i \in DOMAIN lines |-> BaseLintWarningLine(lines[i])])
    IN  Return([errors |-> PyInt(errors),
                warnings |-> PyInt(warnings),
                total_issues |-> PyInt(errors + warnings),
                success |-> PyBool(errors = 0)])

SeverityLine(line, level) ==
    LET l == lower(line) IN
    Contains(l, level) /\ (Contains(l, "severity") \/ Contains(l, "risk"))
BaseHighLine(line) == SeverityLine(line, "high")
BaseMediumLine(line) == SeverityLine(line, "medium")
BaseLowLine(line) == SeverityLine(line, "low")

\* a plausible bug: success computed from the total
BaseAdapter_parse_security_output_total(output) ==
    LET lines == split_on(output, "\n")
        high == CountLines([i \in DOMAIN lines |-> BaseHighLine(lines[i])])
        medium == CountLines([i \in DOMAIN lines |-> BaseMediumLine(lines[i])])
        low == CountLines([i \in DOMAIN lines |-> BaseLowLine(lines[i])])
    IN  Return([high |-> PyInt(high),
                medium |-> PyInt(medium),
                low |-> PyInt(low),
                total_issues |-> PyInt(high + medium + low),
                success |-> PyBool(high + medium + low = 0)])

\* BaseAdapter.parse_security_output
BaseAdapter_parse_security_output(output) ==
    LET lines == split_on(output, "\n")
        high == CountLines([i \in DOMAIN lines |-> BaseHighLine(lines[i])])
        medium == CountLines([i \in DOMAIN lines |-> BaseMediumLine(lines[i])])
        low == CountLines([i \in DOMAIN lines |-> BaseLowLine(lines[i])])
    IN  Return([high |-> PyInt(high),
                medium |-> PyInt(medium),
                low |-> PyInt(low),
                total_issues |-> PyInt(high + medium + low),
                success |-> PyBool(high = 0)])

(***************************************************************************)
(* PythonAdapter.parse_test_output (pytest)                                *)
(***************************************************************************)
\* ' WORD' in line or '::' in line and 'WORD' in line
PytestMarked(line, word) ==
    Contains(line, " " \o word) \/ (Contains(line, "::") /\ Contains(line, word))

PytestPassedLine(line) == PytestMarked(line, "PASSED")
PytestFailedLine(line) ==
    ~PytestPassedLine(line) /\ PytestMarked(line, "FAILED")
PytestSkippedLine(line) ==
    ~PytestPassedLine(line) /\ ~PytestMarked(line, "FAILED") /\ PytestMarked(line, "SKIPPED")

\* re.search(r'(\d+)%', line): where a match can start
PercentStarts(line) ==
    {i \in 1..Len(line) :
        /\ Char(line, i) \in DigitChars
        /\ LiteralAt(line, RunEnd(line, i, DigitChars) + 1, "%")}

\* the lines that assign `coverage`
CoverageLines(lines) ==
    {i \in 1..Len(lines) :
        /\ Contains(lines[i], "TOTAL")
        /\ Contains(lines[i], "%")
        /\ PercentStarts(lines[i]) # {}}

\* the value `coverage` holds after the loop
coverage_of(lines) ==
    IF CoverageLines(lines) = {} THEN PyNone
    ELSE LET line == lines[CHOOSE i \in CoverageLines(lines) :
                               \A j \in CoverageLines(lines) : j <= i]
             at == Min(PercentStarts(line))
         IN  PyInt(int(SubSeq(line, at, RunEnd(line, at, DigitChars))))

\* .*?in\s+([\d.]+)s matches from index q on
SummaryTail(s, q) ==
    \E k \in q..Len(s) :
        /\ \A j \in q..(k - 1) : Char(s, j) # "\n"
        /\ LiteralAt(s, k, "in")
        /\ LET w == RunEnd(s, k + 2, RegexSpace)
               d == RunEnd(s, w + 1, DigitChars \cup {"."})
           IN  w >= k + 2 /\ d >= w + 1 /\ LiteralAt(s, d + 1, "s")

\* .*?(\d+)\s+passed.*?in\s+([\d.]+)s from index q on: the indices where
\* group 2 can start
SummaryPassedStarts(s, q) ==
    {j \in q..Len(s) :
        /\ \A i \in q..(j - 1) : Char(s, i) # "\n"
        /\ Char(s, j) \in DigitChars
        /\ LET e == RunEnd(s, j, DigitChars)
               w == RunEnd(s, e + 1, RegexSpace)
           IN  w >= e + 1 /\ LiteralAt(s, w + 1, "passed") /\ SummaryTail(s, w + 7)}

\* the index after `=+\s*(\d+)\s+failed` when it matches from index a, else 0
SummaryFailedEnd(s, a) ==
    IF Char(s, a) # "=" THEN 0
    ELSE LET w1 == RunEnd(s, RunEnd(s, a, {"="}) + 1, RegexSpace)
             d1 == RunEnd(s, w1 + 1, DigitChars)
             w2 == RunEnd(s, d1 + 1, RegexSpace)
         IN  IF d1 >= w1 + 1 /\ w2 >= d1 + 1 /\ LiteralAt(s, w2 + 1, "failed")
             THEN w2 + 7 ELSE 0

\* group 1 of a match that starts at index a
SummaryFailedGroup(s, a) ==
    LET w1 == RunEnd(s, RunEnd(s, a, {"="}) + 1, RegexSpace) IN
    SubSeq(s, w1 + 1, RunEnd(s, w1 + 1, DigitChars))

\* where summary_pattern matches
SummaryStarts(s) ==
    {a \in 1..Len(s) :
        SummaryFailedEnd(s, a) # 0 /\ SummaryPassedStarts(s, SummaryFailedEnd(s, a)) # {}}

\* re.search(summary_pattern, output), with groups 1 and 2 as integers
summary_search(output) ==
    IF SummaryStarts(output) = {} THEN [found |-> FALSE, failed |-> 0, passed |-> 0]
    ELSE LET a == Min(SummaryStarts(output))
             j == Min(SummaryPassedStarts(output, SummaryFailedEnd(output, a)))
         IN  [found |-> TRUE,
              failed |-> int(SummaryFailedGroup(output, a)),
              passed |-> int(SubSeq(output, j, RunEnd(output, j, DigitChars)))]

\* the same with the total taken before the summary line is looked for
PythonAdapter_parse_test_output_early_total(output) ==
    LET lines == split_on(output, "\n")
        summary_match == summary_search(output)
        passed_lines == CountLines([i \in DOMAIN lines |-> PytestPassedLine(lines[i])])
        failed_lines == CountLines([i \in DOMAIN lines |-> PytestFailedLine(lines[i])])
        passed == IF summary_match.found THEN summary_match.passed ELSE passed_lines
        failed == IF summary_match.found THEN summary_match.failed ELSE failed_lines
        skipped == CountLines([i \in DOMAIN lines |-> PytestSkippedLine(lines[i])])
    IN  Return([passed |-> PyInt(passed),
                failed |-> PyInt(failed),
                skipped |-> PyInt(skipped),
                total |-> PyInt(passed_lines + failed_lines + skipped),
                coverage |-> coverage_of(lines),
                success |-> PyBool(failed = 0),
                status |-> PyStr(IF failed = 0 THEN "PASS" ELSE "FAIL")])

PythonAdapter_parse_test_output(output) ==
    LET lines == split_on(output, "\n")
        summary_match == summary_search(output)
        passed == IF summary_match.found THEN summary_match.passed
                  ELSE CountLines([i \in DOMAIN lines |-> PytestPassedLine(lines[i])])
        failed == IF summary_match.found THEN summary_match.failed
                  ELSE CountLines([i \in DOMAIN lines |-> PytestFailedLine(lines[i])])
        skipped == CountLines([i \in DOMAIN lines |-> PytestSkippedLine(lines[i])])
    IN  Return([passed |-> PyInt(passed),
                failed |-> PyInt(failed),
                skipped |-> PyInt(skipped),
                total |-> PyInt(passed + failed + skipped),
                coverage |-> coverage_of(lines),
                success |-> PyBool(failed = 0),
                status |-> PyStr(IF failed = 0 THEN "PASS" ELSE "FAIL")])

(***************************************************************************)
(* PythonAdapter.parse_lint_output (ruff)                                  *)
(***************************************************************************)
\* re.search(r'([A-Z]\d{3})', line): where a match can start
CodeStarts(line) ==
    {i \in 1..(Len(line) - 3) :
        /\ Char(line, i) \in UpperChars
        /\ \A k \in 1..3 : Char(line, i + k) \in DigitChars}

LintIssueLine(line) == Contains(line, ":") /\ CodeStarts(line) # {}

\* code_match.group(1)
lint_code(line) == SubSeq(line, Min(CodeStarts(line)), Min(CodeStarts(line)) + 3)

\* code.startswith(('E', 'F'))
LintErrorLine(line) == LintIssueLine(line) /\ Char(lint_code(line), 1) \in {"E", "F"}
LintWarningLine(line) == LintIssueLine(line) /\ Char(lint_code(line), 1) \notin {"E", "F"}

PythonAdapter_parse_lint_output(output) ==
    LET lines == split_on(output, "\n")
        errors == CountLines([i \in DOMAIN lines |-> LintErrorLine(lines[i])])
        warnings == CountLines([i \in DOMAIN lines |-> LintWarningLine(lines[i])])
        issues == {i \in 1..Len(lines) : LintIssueLine(lines[i])}
        codes == {PyKey(PyStr(lint_code(lines[i]))) : i \in issues}
    IN  Return([errors |-> PyInt(errors),
                warnings |-> PyInt(warnings),
                total_issues |-> PyInt(errors + warnings),
                issues_by_type |->
                    PyDict([c \in codes |->
                        PyInt(Cardinality({i \in issues : PyKey(PyStr(lint_code(lines[i]))) = c}))]),
                success |-> PyBool(errors = 0),
                status |-> PyStr(IF errors = 0 THEN "PASS" ELSE "ISSUES")])

(***************************************************************************)
(* json.loads, for documents without string escapes and without fractions  *)
(* or exponents in numbers.  A scanner returns [ok, value, end, error]:    *)
(* end is the index after what it consumed, error the exception that ends  *)
(* the scan when ok is false.                                              *)
(***************************************************************************)
JsonSpace == {" ", "\t", "\n", "\r"}
skip_whitespace(s, i) == RunEnd(s, i, JsonSpace) + 1

\* the nesting of arrays and objects at which the interpreter's recursion
\* limit (1000 frames by default) stops the scanner, scaled down
RecursionLimit == 5

JsonFail == [ok |-> FALSE, value |-> PyNone, end |-> 0, error |-> "JSONDecodeError"]
JsonTooDeep == [ok |-> FALSE, value |-> PyNone, end |-> 0, error |-> "RecursionError"]
JsonOk(v, e) == [ok |-> TRUE, value |-> v, end |-> e, error |-> "none"]

\* a string literal whose opening quote is at index i; a control character
\* inside it is an error
scan_string(s, i) ==
    LET close == {j \in (i + 1)..Len(s) : Char(s, j) = "\""} IN
    IF close = {} THEN JsonFail
    ELSE LET body == SubSeq(s, i + 1, Min(close) - 1) IN
         IF \E k \in 1..Len(body) : Char(body, k) \in {"\n", "\t", "\r"}
         THEN JsonFail
         ELSE JsonOk(PyStr(body), Min(close) + 1)

\* an integer literal -?(0|[1-9]\d*) at index i
scan_number(s, i) ==
    LET neg == Char(s, i) = "-"
        d == IF neg THEN i + 1 ELSE i
    IN  IF ~(d <= Len(s) /\ Char(s, d) \in DigitChars) THEN JsonFail
        ELSE LET e == IF Char(s, d) = "0" THEN d ELSE RunEnd(s, d, DigitChars)
                 n == int(SubSeq(s, d, e))
             IN  JsonOk(PyInt(IF neg THEN 0 - n ELSE n), e + 1)

RECURSIVE scan_once(_, _, _)
RECURSIVE scan_object(_, _, _, _)
RECURSIVE scan_array(_, _, _, _)

\* the pairs of an object from index i on (at a key), acc the pairs so far,
\* depth the nesting of the object; a repeated key keeps its last value
scan_object(s, i, acc, depth) ==
    IF ~LiteralAt(s, i, "\"") THEN JsonFail
    ELSE LET key == scan_string(s, i) IN
    IF ~key.ok THEN JsonFail
    ELSE LET colon == skip_whitespace(s, key.end) IN
    IF ~LiteralAt(s, colon, ":") THEN JsonFail
    ELSE LET val == scan_once(s, skip_whitespace(s, colon + 1), depth) IN
    IF ~val.ok THEN val
    ELSE LET pairs == (key.value.v :> val.value) @@ acc
             next == skip_whitespace(s, val.end)
         IN  IF LiteralAt(s, next, "}") THEN JsonOk(PyDict(pairs), next + 1)
             ELSE IF LiteralAt(s, next, ",")
                  THEN scan_object(s, skip_whitespace(s, next + 1), pairs, depth)
                  ELSE JsonFail

\* the items of an array from index i on (at a value), acc the items so far,
\* depth the nesting of the array
scan_array(s, i, acc, depth) ==
    LET val == scan_once(s, i, depth) IN
    IF ~val.ok THEN val
    ELSE LET items == Append(acc, val.value)
             next == skip_whitespace(s, val.end)
         IN  IF LiteralAt(s, next, "]") THEN JsonOk(PyList(items), next + 1)
             ELSE IF LiteralAt(s, next, ",")
                  THEN scan_array(s, skip_whitespace(s, next + 1), items, depth)
                  ELSE JsonFail

\* the value at index i, inside `depth` arrays and objects
scan_once(s, i, depth) ==
    IF i > Len(s) THEN JsonFail
    ELSE IF Char(s, i) = "\"" THEN scan_string(s, i)
    ELSE IF Char(s, i) \in {"{", "["} /\ depth >= RecursionLimit THEN JsonTooDeep
    ELSE IF Char(s, i) = "{"
         THEN IF LiteralAt(s, skip_whitespace(s, i + 1), "}")
              THEN JsonOk(PyDict(<< >>), skip_whitespace(s, i + 1) + 1)
              ELSE scan_object(s, skip_whitespace(s, i + 1), << >>, depth + 1)
    ELSE IF Char(s, i) = "["
         THEN IF LiteralAt(s, skip_whitespace(s, i + 1), "]")
              THEN JsonOk(PyList(<< >>), skip_whitespace(s, i + 1) + 1)
              ELSE scan_array(s, skip_whitespace(s, i + 1), << >>, depth + 1)
    ELSE IF LiteralAt(s, i, "null") THEN JsonOk(PyNone, i + 4)
    ELSE IF LiteralAt(s, i, "true") THEN JsonOk(PyBool(TRUE), i + 4)
    ELSE IF LiteralAt(s, i, "false") THEN JsonOk(PyBool(FALSE), i + 5)
    ELSE IF Char(s, i) \in DigitChars \cup {"-"} THEN scan_number(s, i)
    ELSE JsonFail

\* json.loads(s)
json_loads(s) ==
    LET val == scan_once(s, skip_whitespace(s, 1), 0) IN
    IF ~val.ok THEN Raise(val.error)
    ELSE IF skip_whitespace(s, val.end) <= Len(s) THEN Raise("JSONDecodeError")
    ELSE Return(val.value)

(***************************************************************************)
(* PythonAdapter.parse_security_output (bandit)                            *)
(***************************************************************************)
\* the items `for result in results` visits: a list gives its items, a dict
\* its keys, a str its characters; nothing else is iterable
PyIter(x) ==
    IF x.t = "list" THEN Return(x.v)
    ELSE IF x.t = "dict"
         THEN Return(CHOOSE seq \in [1..Cardinality(DOMAIN x.v) -> {PyStr(k) : k \in DOMAIN x.v}] :
                         \A i, j \in DOMAIN seq : seq[i] = seq[j] => i = j)
    ELSE IF x.t = "str" THEN Return([i \in 1..Len(x.v) |-> PyStr(Char(x.v, i))])
    ELSE Raise("TypeError")

\* result.get('test_id', 'unknown') of a dict
test_id_of(result) ==
    IF "test_id" \in DOMAIN result.v THEN result.v["test_id"] ELSE PyStr("unknown")

\* the loop over results: issues_by_type, or the exception of the first
\* result that has no get method or whose test_id is unhashable
count_results(items) ==
    LET bad == {i \in 1..Len(items) :
                   \/ items[i].t # "dict"
                   \/ test_id_of(items[i]).t \in {"list", "dict"}}
        ids == {PyKey(test_id_of(items[i])) : i \in 1..Len(items)}
    IN  IF bad # {}
        THEN Raise(IF items[Min(bad)].t # "dict" THEN "AttributeError" ELSE "TypeError")
        ELSE Return(PyDict([id \in ids |->
                 PyInt(Cardinality({i \in 1..Len(items) : PyKey(test_id_of(items[i])) = id}))]))

\* the body of the try block once json.loads has returned bandit_data
security_report(bandit_data) ==
    LET metrics == PyGet(bandit_data, "metrics", PyDict(<< >>)) IN
    IF metrics.exc # "none" THEN metrics
    ELSE LET totals == PyGet(metrics.value, "_totals", PyDict(<< >>)) IN
    IF totals.exc # "none" THEN totals
    ELSE LET totals_high == PyGet(totals.value, "SEVERITY.HIGH", PyInt(0)) IN
    IF totals_high.exc # "none" THEN totals_high
    ELSE LET high == totals_high.value
             medium == PyGet(totals.value, "SEVERITY.MEDIUM", PyInt(0)).value
             low == PyGet(totals.value, "SEVERITY.LOW", PyInt(0)).value
             results == PyIter(PyGet(bandit_data, "results", PyList(<< >>)).value)
         IN
    IF results.exc # "none" THEN results
    ELSE LET issues_by_type == count_results(results.value) IN
    IF issues_by_type.exc # "none" THEN issues_by_type
    ELSE LET partial == PyAdd(high, medium) IN
    IF partial.exc # "none" THEN partial
    ELSE LET total_issues == PyAdd(partial.value, low) IN
    IF total_issues.exc # "none" THEN total_issues
    ELSE Return([high |-> high,
                 medium |-> medium,
                 low |-> low,
                 total_issues |-> total_issues.value,
                 issues_by_type |-> issues_by_type.value,
                 success |-> PyBool(PyEqualsZero(high)),
                 status |-> PyStr(IF PyEqualsZero(high) THEN "CLEAR" ELSE "ISSUES")])

PythonAdapter_parse_security_output(output) ==
    LET bandit_data == json_loads(output) IN
    IF bandit_data.exc = "JSONDecodeError"
    THEN BaseAdapter_parse_security_output(output)
    ELSE IF bandit_data.exc # "none" THEN bandit_data
    ELSE security_report(bandit_data.value)

(***************************************************************************)
(* The parsers at work: a tool has written the text `raw`, and a caller    *)
(* hands it to one parser of the generic adapter or of the Python adapter. *)
(* The parsers keep no state, so each behaviour is one call.               *)
(***************************************************************************)
\* the number of lines of an output
MaxOutputLines == 2

OutputLines ==
    { "tests/test_a.py::test_one PASSED",
      "tests/test_a.py::test_two FAILED",
      "tests/test_b.py::test_three SKIPPED",
      "===== 2 failed, 5 passed in 1.23s =====",
      "== 1 failed, 3 passed in 0.50s ==",
      "2 failed, 5 passed in 1.23s",
      "TOTAL 120 10 92%",
      CHECK_MARK \o " renders",
      "src/app.py:10:5: E501 line too long",
      "src/app.py:3:1: W291 trailing whitespace",
      "src/A123.py:1:1: F401 unused import",
      "error: build stopped",
      "warning: deprecated call",
      "Severity: High",
      "Issue risk: low",
      "Severity: Medium Confidence: High",
      "high load" }

\* the texts of exactly n lines
RECURSIVE TextsOfLines(_)
TextsOfLines(n) ==
    IF n = 0 THEN {""}
    ELSE IF n = 1 THEN OutputLines
    ELSE {text \o "\n" \o line : text \in TextsOfLines(n - 1), line \in OutputLines}

TextOutputs == UNION {TextsOfLines(n) : n \in 0..MaxOutputLines}

\* bandit's JSON report of the given totals (each below 10)
BanditReport(high, medium, low, results) ==
    "{\"metrics\": {\"_totals\": {\"SEVERITY.HIGH\": " \o Char(Digits, high + 1)
    \o ", \"SEVERITY.MEDIUM\": " \o Char(Digits, medium + 1)
    \o ", \"SEVERITY.LOW\": " \o Char(Digits, low + 1)
    \o "}}, \"results\": " \o results \o "}"

ReportResults ==
    { "[]",
      "[{\"test_id\": \"B101\"}, {\"test_id\": \"B602\"}, {\"test_id\": \"B101\"}]" }

ReportCounts == {0, 1, 3}

BanditReports ==
    {BanditReport(h, m, l, r) : h \in {0, 1}, m \in ReportCounts, l \in ReportCounts,
                                r \in ReportResults}

\* brackets nested beyond what the scanner can follow
RECURSIVE Repeat(_, _)
Repeat(text, n) == IF n = 0 THEN "" ELSE text \o Repeat(text, n - 1)
DeepDocument == Repeat("[", RecursionLimit + 1)

\* output that is JSON, or nearly, but not the report bandit writes
OtherDocuments ==
    { "5", " [] ", "null", "{}", "\"Severity: High\"",
      "{\"metrics\": {\"_totals\": {\"SEVERITY.HIGH\": -1}}}",
      "{\"metrics\": {\"_totals\": {\"SEVERITY.HIGH\": \"many\"}}}",
      "{\"metrics\": {\"_totals\": {\"SEVERITY.HIGH\": \"a\", \"SEVERITY.MEDIUM\": \"b\", \"SEVERITY.LOW\": \"c\"}}}",
      "{\"metrics\": {\"_totals\": {\"SEVERITY.HIGH\": true}}}",
      "{\"metrics\": {\"_totals\": null}}",
      "{\"metrics\": []}",
      "{\"results\": 5}",
      "{\"results\": [5]}",
      "{\"results\": {\"B101\": 1}}",
      "{\"results\": [{\"test_id\": [\"B101\"]}]}",
      "{\"results\": [{\"test_id\": 1}, {\"test_id\": true}, {}]}",
      "{\"metrics\": {\"_totals\": {\"SEVERITY.HIGH\": 1, \"SEVERITY.HIGH\": 0}}}",
      "{\"metrics\": {\"_totals\": {\"SEVERITY.HIGH\": 1}}",
      "{\"metrics\": {}} trailing",
      "{\"results\": [],}",
      DeepDocument }

Outputs == TextOutputs \cup BanditReports \cup OtherDocuments

InitParsers ==
    /\ raw \in Outputs
    /\ parsed = NotParsed
    /\ language = Idle /\ adapter = NotCalled
    /\ project = Idle /\ scores = Idle /\ detected = NotCalled
    /\ command = Idle /\ host = Idle /\ invocation = NotCalled /\ probe = NotCalled
    /\ policy = Idle /\ measured = 0 /\ verdict = NotCalled
    /\ orchestrator_config = Idle /\ acceptance = NotCalled /\ verdicts = NotCalled /\ accepted = NotCalled
    /\ objects = << >> /\ threads = Idle
    /\ catalog = Idle /\ configs = << >>
    /\ source = Idle /\ ceiling = 0 /\ measure = NotMeasured
    /\ manifests = Idle /\ dependencies = NotCalled
    /\ ledger = Idle /\ history = << >>

\* BaseAdapter.parse_test_output(raw)
BaseParseTest ==
    /\ ~Called(parsed.outcome)
    /\ parsed' = [parser |-> "BaseAdapter.parse_test_output",
                  outcome |-> BaseAdapter_parse_test_output(raw)]
    /\ UNCHANGED <<raw, registryVars, classifierVars, invokerVars, gateVars, pipelineVars, sharingVars, catalogVars, heuristicVars, dependencyVars, ledgerVars>>

\* BaseAdapter.parse_lint_output(raw)
BaseParseLint ==
    /\ ~Called(parsed.outcome)
    /\ parsed' = [parser |-> "BaseAdapter.parse_lint_output",
                  outcome |-> BaseAdapter_parse_lint_output(raw)]
    /\ UNCHANGED <<raw, registryVars, classifierVars, invokerVars, gateVars, pipelineVars, sharingVars, catalogVars, heuristicVars, dependencyVars, ledgerVars>>

\* BaseAdapter.parse_security_output(raw)
BaseParseSecurity ==
    /\ ~Called(parsed.outcome)
    /\ parsed' = [parser |-> "BaseAdapter.parse_security_output",
                  outcome |-> BaseAdapter_parse_security_output(raw)]
    /\ UNCHANGED <<raw, registryVars, classifierVars, invokerVars, gateVars, pipelineVars, sharingVars, catalogVars, heuristicVars, dependencyVars, ledgerVars>>

\* PythonAdapter.parse_test_output(raw)
PythonParseTest ==
    /\ ~Called(parsed.outcome)
    /\ parsed' = [parser |-> "PythonAdapter.parse_test_output",
                  outcome |-> PythonAdapter_parse_test_output(raw)]
    /\ UNCHANGED <<raw, registryVars, classifierVars, invokerVars, gateVars, pipelineVars, sharingVars, catalogVars, heuristicVars, dependencyVars, ledgerVars>>

\* PythonAdapter.parse_lint_output(raw)
PythonParseLint ==
    /\ ~Called(parsed.outcome)
    /\ parsed' = [parser |-> "PythonAdapter.parse_lint_output",
                  outcome |-> PythonAdapter_parse_lint_output(raw)]
    /\ UNCHANGED <<raw, registryVars, classifierVars, invokerVars, gateVars, pipelineVars, sharingVars, catalogVars, heuristicVars, dependencyVars, ledgerVars>>

\* PythonAdapter.parse_security_output(raw)
PythonParseSecurity ==
    /\ ~Called(parsed.outcome)
    /\ parsed' = [parser |-> "PythonAdapter.parse_security_output",
                  outcome |-> PythonAdapter_parse_security_output(raw)]
    /\ UNCHANGED <<raw, registryVars, classifierVars, invokerVars, gateVars, pipelineVars, sharingVars, catalogVars, heuristicVars, dependencyVars, ledgerVars>>

NextParsers ==
    \/ BaseParseTest
    \/ BaseParseLint
    \/ BaseParseSecurity
    \/ PythonParseTest
    \/ PythonParseLint
    \/ PythonParseSecurity

SpecParsers == InitParsers /\ [][NextParsers]_vars

(***************************************************************************)
(* C5, C6, C7: claims about the parsers                                    *)
(***************************************************************************)
Lines(text) == split_on(text, "\n")

\* the result the last call returned
Result == parsed.outcome.value
Returned == parsed.outcome.exc = "none"

CountFields ==
    {"passed", "failed", "skipped", "total", "errors", "warnings", "total_issues",
     "high", "medium", "low"}

\* every count of the result is a non-negative integer, its success a boolean
WellFormed(result) ==
    /\ \A f \in CountFields \cap DOMAIN result : result[f].t = "int" /\ result[f].v >= 0
    /\ result.success.t = "bool"

\* C5: whatever the raw output, each of the generic and Python test, lint and
\* security parsers returns, without raising, a result whose counts are
\* non-negative integers and whose success is a boolean.
C5_ParserTotality ==
    Called(parsed.outcome) => Returned /\ WellFormed(Result)

\* the summary line of the specification's example and pytest's banner of it
SummaryExample == "2 failed, 5 passed in 1.23s"
SummaryBanner == "===== 2 failed, 5 passed in 1.23s ====="

\* a line of the shape `N failed ... M passed ... in S`
SummaryShaped(line) ==
    Contains(line, " failed") /\ Contains(line, " passed") /\ Contains(line, " in ")

\* the output contains the example line and no summary of other counts
HasSummaryExample(text) ==
    /\ \E i \in DOMAIN Lines(text) : Lines(text)[i] = SummaryExample
    /\ \A i \in DOMAIN Lines(text) :
          SummaryShaped(Lines(text)[i]) => Lines(text)[i] \in {SummaryExample, SummaryBanner}

\* C6: for an output that contains the summary line "2 failed, 5 passed in
\* 1.23s", PythonAdapter.parse_test_output returns failed = 2 and passed = 5,
\* whatever per-line PASSED/FAILED markers the rest of the output holds.
C6_SummaryLineWins ==
    parsed.parser = "PythonAdapter.parse_test_output" /\ HasSummaryExample(raw)
        => Returned /\ Result.failed = PyInt(2) /\ Result.passed = PyInt(5)

TestParsers == {"BaseAdapter.parse_test_output", "PythonAdapter.parse_test_output"}
LintParsers == {"BaseAdapter.parse_lint_output", "PythonAdapter.parse_lint_output"}
SecurityParsers == {"BaseAdapter.parse_security_output", "PythonAdapter.parse_security_output"}

\* the count the success flag of a parser's result is defined by
DecisiveCount(parser, result) ==
    IF parser \in TestParsers THEN result.failed
    ELSE IF parser \in LintParsers THEN result.errors
    ELSE result.high

\* C7: in every result a parser returns, success is true exactly when failed = 0
\* (tests), errors = 0 (lint), high = 0 (security); and for bandit's report with
\* SEVERITY.HIGH = h the Python security parser returns success = (h = 0),
\* whatever the medium and low totals.
C7_SuccessFlag ==
    /\ Returned => Result.success = PyBool(PyEqualsZero(DecisiveCount(parsed.parser, Result)))
    /\ parsed.parser = "PythonAdapter.parse_security_output" =>
          \A h \in {0, 1}, m \in ReportCounts, l \in ReportCounts, r \in ReportResults :
              raw = BanditReport(h, m, l, r) => Returned /\ Result.success = PyBool(h = 0)

\* a report without high-severity findings, but with medium and low ones, has
\* been parsed as a success
C7_Witness ==
    /\ parsed.parser = "PythonAdapter.parse_security_output"
    /\ \E r \in ReportResults : raw = BanditReport(0, 3, 1, r)
    /\ Returned
    /\ Result.success = PyBool(TRUE)
    /\ Result.medium = PyInt(3)

(***************************************************************************)
(* C16: claim about the bounds of the classifier's walk                    *)
(***************************************************************************)
\* how many levels below the project root a directory lies
LevelsBelowRoot(dir) == IF dir = "" THEN 0 ELSE CountChar(dir, "/") + 1

\* the directories on the way from the project root to the directory
DirectoriesBelowRoot(dir) ==
    IF dir = "" THEN {} ELSE {split_on(dir, "/")[i] : i \in DOMAIN split_on(dir, "/")}

\* the files whose names the claim lets contribute
ContributingFiles(p) ==
    {f \in p.files :
        /\ LevelsBelowRoot(f.dir) <= 3
        /\ DirectoriesBelowRoot(f.dir) \cap IgnorePatterns = {}}

\* C16: a file's name is used for indicator matching iff the file lies at
\* most 3 levels below the project root and none of the directories between
\* the root and the file is .git, node_modules, __pycache__ or .venv, wherever
\* the project root itself is located; the scores are those of these names.
C16_WalkBounds ==
    (Called(detected) /\ detected.exc = "none" /\ project.access = "ok") =>
        LET names == {f.name : f \in ContributingFiles(project)} IN
        /\ files_in_project(project) = names
        /\ \A n \in TemplateNames(PROJECT_TEMPLATES) :
              scores[n] = template_score(TemplateNamed(PROJECT_TEMPLATES, n), names,
                                         keywords_found(PROJECT_TEMPLATES, project))

(***************************************************************************)
(* C15: claim about the fallback of the security parser                    *)
(***************************************************************************)
\* C15: for every output that cannot be decoded as JSON, the Python security
\* parser returns exactly what the generic security parser returns for that
\* output; the failure to decode never reaches the caller.
C15_SecurityFallback ==
    (parsed.parser = "PythonAdapter.parse_security_output" /\ json_loads(raw).exc # "none")
        => parsed.outcome = BaseAdapter_parse_security_output(raw)

(***************************************************************************)
(* C17: claim about the lint parser                                        *)
(***************************************************************************)
IsNumber(text) ==
    Len(text) > 0 /\ \A i \in 1..Len(text) : Char(text, i) \in DigitChars

\* the line has the form `file:line:col: CODE message`
IsIssueLine(line) ==
    LET parts == split_on(line, ":") IN
    /\ Len(parts) >= 4
    /\ Len(parts[1]) > 0
    /\ IsNumber(parts[2])
    /\ IsNumber(parts[3])
    /\ Len(parts[4]) >= 5
    /\ Char(parts[4], 1) = " "
    /\ Char(parts[4], 2) \in UpperChars
    /\ IsNumber(SubSeq(parts[4], 3, 5))
    /\ (Len(parts[4]) = 5 \/ Char(parts[4], 6) = " ")

\* the CODE of such a line
IssueCode(line) == SubSeq(split_on(line, ":")[4], 2, 5)

\* the indices of the lines of that form in a text
IssueLines(text) == {i \in DOMAIN Lines(text) : IsIssueLine(Lines(text)[i])}

\* C17: the Python lint parser counts each line `file:line:col: CODE message`
\* once, as an error when CODE starts with E or F and as a warning otherwise;
\* issues_by_type[CODE] is the number of such lines with that code, and no
\* other line counts.
C17_LintParsing ==
    parsed.parser = "PythonAdapter.parse_lint_output" =>
        LET lines == Lines(raw)
            fatal == {i \in IssueLines(raw) : Char(IssueCode(lines[i]), 1) \in {"E", "F"}}
            codes == {IssueCode(lines[i]) : i \in IssueLines(raw)}
        IN  /\ Returned
            /\ Result.errors = PyInt(Cardinality(fatal))
            /\ Result.warnings = PyInt(Cardinality(IssueLines(raw) \ fatal))
            /\ Result.total_issues = PyInt(Cardinality(IssueLines(raw)))
            /\ DOMAIN Result.issues_by_type.v = {PyKey(PyStr(c)) : c \in codes}
            /\ \A c \in codes :
                  Result.issues_by_type.v[PyKey(PyStr(c))] =
                      PyInt(Cardinality({i \in IssueLines(raw) : IssueCode(lines[i]) = c}))

(***************************************************************************)
(* BaseAdapter.extract_coverage: three regular expressions tried in order, *)
(* each searched with re.IGNORECASE, the first match converted by float.   *)
(***************************************************************************)
NoMatch == [matched |-> FALSE, group |-> ""]
Match(text) == [matched |-> TRUE, group |-> text]

\* (\d+(?:\.\d+)?)% tried at position i: the index of the last character of
\* the group, 0 when the expression does not match there
percent_group_end(s, i) ==
    IF i < 1 \/ i > Len(s) THEN 0
    ELSE IF Char(s, i) \notin DigitChars THEN 0
    ELSE LET whole == RunEnd(s, i, DigitChars)
             fraction == IF LiteralAt(s, whole + 1, ".")
                         THEN RunEnd(s, whole + 2, DigitChars)
                         ELSE whole
         IN  IF fraction > whole + 1 /\ LiteralAt(s, fraction + 1, "%") THEN fraction
             ELSE IF LiteralAt(s, whole + 1, "%") THEN whole
             ELSE 0

\* positions after position i that `.*?` can reach: it does not cross a newline
LazyReach(s, i) ==
    {g \in i..Len(s) : \A j \in i..(g - 1) : Char(s, j) # "\n"}

\* re.search(r'TOTAL.*?(\d+(?:\.\d+)?)%', output, re.IGNORECASE)
search_total(s) ==
    LET groups(t) == {g \in LazyReach(s, t + 5) : percent_group_end(s, g) > 0}
        starts == {t \in 1..Len(s) : LiteralAt(lower(s), t, "total") /\ groups(t) # {}}
    IN  IF starts = {} THEN NoMatch
        ELSE LET g == Min(groups(Min(starts)))
             IN  Match(SubSeq(s, g, percent_group_end(s, g)))

\* re.search(r'coverage:\s*(\d+(?:\.\d+)?)%', output, re.IGNORECASE)
search_coverage_colon(s) ==
    LET group(c) == RunEnd(s, c + 9, RegexSpace) + 1
        starts == {c \in 1..Len(s) : /\ LiteralAt(lower(s), c, "coverage:")
                                     /\ percent_group_end(s, group(c)) > 0}
    IN  IF starts = {} THEN NoMatch
        ELSE LET g == group(Min(starts))
             IN  Match(SubSeq(s, g, percent_group_end(s, g)))

\* re.search(r'(\d+(?:\.\d+)?)%\s*coverage', output, re.IGNORECASE)
search_percent_coverage(s) ==
    LET starts == {g \in 1..Len(s) :
                     /\ percent_group_end(s, g) > 0
                     /\ LiteralAt(lower(s),
                                  RunEnd(s, percent_group_end(s, g) + 2, RegexSpace) + 1,
                                  "coverage")}
    IN  IF starts = {} THEN NoMatch
        ELSE Match(SubSeq(s, Min(starts), percent_group_end(s, Min(starts))))

\* a float: its whole part and the digits of its fraction, trailing zeros off
PyFloat(whole, fraction) == [t |-> "float", whole |-> whole, fraction |-> fraction]

RECURSIVE strip_zeros(_)
strip_zeros(digits) ==
    IF Len(digits) > 0 /\ Char(digits, Len(digits)) = "0"
    THEN strip_zeros(SubSeq(digits, 1, Len(digits) - 1))
    ELSE digits

\* float(text) for a text of the form \d+(\.\d+)?
float(text) ==
    LET parts == split_on(text, ".") IN
    PyFloat(int(parts[1]), IF Len(parts) > 1 THEN strip_zeros(parts[2]) ELSE "")

\* the same with the patterns tried in another order
extract_coverage_reordered(output) ==
    LET third == search_percent_coverage(output)
        second == search_coverage_colon(output)
        first == search_total(output)
    IN  IF third.matched THEN Return(float(third.group))
        ELSE IF second.matched THEN Return(float(second.group))
        ELSE IF first.matched THEN Return(float(first.group))
        ELSE Return(PyNone)

extract_coverage(output) ==
    LET first == search_total(output)
        second == search_coverage_colon(output)
        third == search_percent_coverage(output)
    IN  IF first.matched THEN Return(float(first.group))
        ELSE IF second.matched THEN Return(float(second.group))
        ELSE IF third.matched THEN Return(float(third.group))
        ELSE Return(PyNone)

MaxCoverageLines == 2

CoverageOutputLines ==
    { "TOTAL 120 30 75%",
      "total lines 120",
      "Coverage: 85.50%",
      "coverage:",
      "90% coverage",
      "12.5%",
      "coverage v1.2.50%",
      "Required test coverage of 80% reached",
      "no tests ran" }

\* the texts of exactly n lines
RECURSIVE CoverageTextsOfLines(_)
CoverageTextsOfLines(n) ==
    IF n = 0 THEN {""}
    ELSE IF n = 1 THEN CoverageOutputLines
    ELSE {text \o "\n" \o line : text \in CoverageTextsOfLines(n - 1), line \in CoverageOutputLines}

CoverageTexts == UNION {CoverageTextsOfLines(n) : n \in 0..MaxCoverageLines}

InitCoverage ==
    /\ raw \in CoverageTexts
    /\ parsed = NotParsed
    /\ language = Idle /\ adapter = NotCalled
    /\ project = Idle /\ scores = Idle /\ detected = NotCalled
    /\ command = Idle /\ host = Idle /\ invocation = NotCalled /\ probe = NotCalled
    /\ policy = Idle /\ measured = 0 /\ verdict = NotCalled
    /\ orchestrator_config = Idle /\ acceptance = NotCalled /\ verdicts = NotCalled /\ accepted = NotCalled
    /\ objects = << >> /\ threads = Idle
    /\ catalog = Idle /\ configs = << >>
    /\ source = Idle /\ ceiling = 0 /\ measure = NotMeasured
    /\ manifests = Idle /\ dependencies = NotCalled
    /\ ledger = Idle /\ history = << >>

\* BaseAdapter.extract_coverage(raw)
ExtractCoverage ==
    /\ ~Called(parsed.outcome)
    /\ parsed' = [parser |-> "BaseAdapter.extract_coverage",
                  outcome |-> extract_coverage(raw)]
    /\ UNCHANGED <<raw, registryVars, classifierVars, invokerVars, gateVars, pipelineVars, sharingVars, catalogVars, heuristicVars, dependencyVars, ledgerVars>>

NextCoverage == ExtractCoverage

SpecCoverage == InitCoverage /\ [][NextCoverage]_vars

(***************************************************************************)
(* C18: claim about the coverage extraction                                *)
(***************************************************************************)
\* text is a percentage: digits, or digits, a point and digits
IsPercentage(text) ==
    LET parts == split_on(text, ".") IN
    /\ Len(parts) \in {1, 2}
    /\ \A k \in DOMAIN parts : IsNumber(parts[k])

\* the places <<first, last>> of the percentages of a text followed by %
Percentages(s) ==
    {place \in (1..Len(s)) \X (1..Len(s)) :
        /\ place[1] <= place[2]
        /\ LiteralAt(s, place[2] + 1, "%")
        /\ IsPercentage(SubSeq(s, place[1], place[2]))}

IsSpaces(text) == \A i \in 1..Len(text) : Char(text, i) \in RegexSpace

\* the percentages that the pattern number k can capture somewhere in s
Captures(k, s) ==
    LET low == lower(s)
        total(place) == \E t \in 1..place[1] :
                          /\ LiteralAt(low, t, "total")
                          /\ t + 5 <= place[1]
                          /\ ~Contains(SubSeq(s, t + 5, place[1] - 1), "\n")
        colon(place) == \E c \in 1..place[1] :
                          /\ LiteralAt(low, c, "coverage:")
                          /\ c + 9 <= place[1]
                          /\ IsSpaces(SubSeq(s, c + 9, place[1] - 1))
        after(place) == \E c \in (place[2] + 2)..Len(s) :
                          /\ LiteralAt(low, c, "coverage")
                          /\ IsSpaces(SubSeq(s, place[2] + 2, c - 1))
    IN  {SubSeq(s, place[1], place[2]) : place \in
            {place \in Percentages(s) : CASE k = 1 -> total(place)
                                          [] k = 2 -> colon(place)
                                          [] k = 3 -> after(place)}}

\* C18: extract_coverage never raises; it returns None exactly when none of
\* the three patterns matches anywhere in the text, and otherwise a
\* percentage captured by the first pattern, in the order TOTAL ... N%,
\* coverage: N%, N% coverage, that matches somewhere.
C18_CoverageExtraction ==
    parsed.parser = "BaseAdapter.extract_coverage" =>
        /\ Returned
        /\ (Result = PyNone) <=> (\A k \in 1..3 : Captures(k, raw) = {})
        /\ \A k \in 1..3 :
             (Captures(k, raw) # {} /\ \A j \in 1..(k - 1) : Captures(j, raw) = {})
                 => \E group \in Captures(k, raw) : Result = float(group)

\* the first pattern matches nowhere, the second and the third both do, and
\* they capture different percentages
C18_Witness ==
    /\ parsed.parser = "BaseAdapter.extract_coverage"
    /\ Captures(1, raw) = {}
    /\ Captures(2, raw) # {}
    /\ Captures(3, raw) # {}
    /\ Captures(2, raw) \cap Captures(3, raw) = {}
    /\ Result \in {float(group) : group \in Captures(2, raw)}

(***************************************************************************)
(* Gate aggregation.  create_orchestrator_config writes the gates of a     *)
(* project and cli.run hands them to the pipeline as the acceptance of the *)
(* TaskSpec; the pipeline itself (Orchestrator.run_full_pipeline) is in    *)
(* orchestrator/core.py and is modelled from section 4.6.                  *)
(***************************************************************************)
\* the gates create_orchestrator_config writes into a configuration
ConfigGates ==
    [build |-> "All code compiles without errors",
     test |-> "All tests pass, coverage >= 80%",
     review |-> "Code follows standards, functions <= 30 lines",
     security |-> "No high severity issues, no hardcoded secrets",
     performance |-> "Metrics within acceptable bounds"]

\* the configurations cli.run can load: the one create_orchestrator_config
\* wrote, one whose owner kept only some of the gates, one without gates
OrchestratorConfigs ==
    {[project_name |-> "app", gates |-> [g \in kept |-> ConfigGates[g]]] :
        kept \in SUBSET DOMAIN ConfigGates}
    \cup {[project_name |-> "app"]}

\* a plausible bug: the key misspelt, so that the default is always taken
config_get_gates_misspelt(config) == << >>

\* orchestrator_config.get('gates', {})
config_get_gates(config) ==
    IF "gates" \in DOMAIN config THEN config.gates ELSE << >>

\* what the pipeline knows of a gate once its checks have run
Verdicts == {"pass", "fail", "unmeasured"}

\* the build is accepted only if every gate of the acceptance passes; a gate
\* without a measured value counts as failed
accept(gates, gate_verdicts) ==
    \A g \in DOMAIN gates : g \in DOMAIN gate_verdicts /\ gate_verdicts[g] = "pass"

InitPipeline ==
    /\ orchestrator_config \in OrchestratorConfigs
    /\ acceptance = NotCalled
    /\ verdicts = NotCalled
    /\ accepted = NotCalled
    /\ language = Idle /\ adapter = NotCalled
    /\ project = Idle /\ scores = Idle /\ detected = NotCalled
    /\ command = Idle /\ host = Idle /\ invocation = NotCalled /\ probe = NotCalled
    /\ policy = Idle /\ measured = 0 /\ verdict = NotCalled
    /\ raw = Idle /\ parsed = NotParsed
    /\ objects = << >> /\ threads = Idle
    /\ catalog = Idle /\ configs = << >>
    /\ source = Idle /\ ceiling = 0 /\ measure = NotMeasured
    /\ manifests = Idle /\ dependencies = NotCalled
    /\ ledger = Idle /\ history = << >>

\* cli.run builds the TaskSpec
BuildTaskSpec ==
    /\ ~Called(acceptance)
    /\ acceptance' = Return(config_get_gates(orchestrator_config))
    /\ UNCHANGED <<orchestrator_config, verdicts, accepted,
                   registryVars, classifierVars, invokerVars, gateVars, parserVars, sharingVars, catalogVars, heuristicVars, dependencyVars, ledgerVars>>

\* the pipeline runs the checks of every gate of the acceptance
RunGates ==
    /\ Called(acceptance)
    /\ ~Called(verdicts)
    /\ \E checked \in [DOMAIN acceptance.value -> Verdicts] : verdicts' = Return(checked)
    /\ UNCHANGED <<orchestrator_config, acceptance, accepted,
                   registryVars, classifierVars, invokerVars, gateVars, parserVars, sharingVars, catalogVars, heuristicVars, dependencyVars, ledgerVars>>

\* the pipeline decides on the build
Aggregate ==
    /\ Called(verdicts)
    /\ ~Called(accepted)
    /\ accepted' = Return(accept(acceptance.value, verdicts.value))
    /\ UNCHANGED <<orchestrator_config, acceptance, verdicts,
                   registryVars, classifierVars, invokerVars, gateVars, parserVars, sharingVars, catalogVars, heuristicVars, dependencyVars, ledgerVars>>

NextPipeline == BuildTaskSpec \/ RunGates \/ Aggregate

SpecPipeline == InitPipeline /\ [][NextPipeline]_vars

(***************************************************************************)
(* C12: claim about gate aggregation                                       *)
(***************************************************************************)
\* the gates the loaded configuration configures
ConfiguredGates ==
    IF "gates" \in DOMAIN orchestrator_config THEN DOMAIN orchestrator_config.gates ELSE {}

Threads == {"worker-1", "worker-2"}

MaxObjects == 2

LintTexts ==
    { "src/app.py:10:5: E501 line too long\nsrc/app.py:3:1: W291 trailing whitespace",
      "src/app.py:3:1: W291 trailing whitespace\nAll checks passed!" }

\* the same with one mapping kept and handed out at every access
first_object(heap) == Min({1} \cup DOMAIN heap)

\* the place of the mapping a dict display evaluates to: a new object
new_object(heap) == Len(heap) + 1

\* what a caller does to a mapping it was handed
caller_edit(object) ==
    IF object.property = "default_tools"
    THEN [object EXCEPT !.mapping.test = "make test"]
    ELSE [object EXCEPT !.mapping.quality.test_coverage.target = 0]

NoCall ==
    [pc |-> "idle", call |-> "none", output |-> "", index |-> 0,
     errors |-> 0, warnings |-> 0, issues_by_type |-> << >>,
     held |-> 0, after_edit |-> FALSE, result |-> NotCalled]

InitSharing ==
    /\ objects = << >>
    /\ threads = [t \in Threads |-> NoCall]
    /\ language = Idle /\ adapter = NotCalled
    /\ project = Idle /\ scores = Idle /\ detected = NotCalled
    /\ command = Idle /\ host = Idle /\ invocation = NotCalled /\ probe = NotCalled
    /\ policy = Idle /\ measured = 0 /\ verdict = NotCalled
    /\ raw = Idle /\ parsed = NotParsed
    /\ orchestrator_config = Idle /\ acceptance = NotCalled /\ verdicts = NotCalled /\ accepted = NotCalled
    /\ catalog = Idle /\ configs = << >>
    /\ source = Idle /\ ceiling = 0 /\ measure = NotMeasured
    /\ manifests = Idle /\ dependencies = NotCalled
    /\ ledger = Idle /\ history = << >>

notSharing == <<registryVars, classifierVars, invokerVars, gateVars, parserVars, pipelineVars>>

\* adapter.parse_lint_output(output) is entered: lines 94 to 98
CallParseLint(t) ==
    /\ threads[t].pc = "idle"
    /\ \E output \in LintTexts :
         threads' = [threads EXCEPT ![t] =
                        [NoCall EXCEPT !.pc = "for line in lines",
                                       !.call = "parse_lint_output",
                                       !.output = output,
                                       !.held = threads[t].held]]
    /\ UNCHANGED <<objects, notSharing, catalogVars, heuristicVars, dependencyVars, ledgerVars>>

\* one iteration of the loop of lines 100 to 113
LintLine(t) ==
    LET self == threads[t]
        lines == split_on(self.output, "\n")
        line == lines[self.index + 1]
        code == PyKey(PyStr(lint_code(line)))
        issues == self.issues_by_type
    IN  /\ self.pc = "for line in lines"
        /\ self.index < Len(lines)
        /\ threads' = [threads EXCEPT ![t] =
             IF LintIssueLine(line)
             THEN [self EXCEPT
                     !.index = @ + 1,
                     !.issues_by_type =
                         IF code \in DOMAIN issues
                         THEN [issues EXCEPT ![code] = PyInt(@.v + 1)]
                         ELSE [c \in DOMAIN issues \cup {code} |->
                                 IF c = code THEN PyInt(1) ELSE issues[c]],
                     !.errors = IF LintErrorLine(line) THEN @ + 1 ELSE @,
                     !.warnings = IF LintErrorLine(line) THEN @ ELSE @ + 1]
             ELSE [self EXCEPT !.index = @ + 1]]
        /\ UNCHANGED <<objects, notSharing, catalogVars, heuristicVars, dependencyVars, ledgerVars>>

\* the return of lines 115 to 122
LintReturn(t) ==
    LET self == threads[t] IN
    /\ self.pc = "for line in lines"
    /\ self.index = Len(split_on(self.output, "\n"))
    /\ threads' = [threads EXCEPT ![t] =
         [NoCall EXCEPT
            !.call = "parse_lint_output",
            !.output = self.output,
            !.held = self.held,
            !.result = Return([errors |-> PyInt(self.errors),
                               warnings |-> PyInt(self.warnings),
                               total_issues |-> PyInt(self.errors + self.warnings),
                               issues_by_type |-> PyDict(self.issues_by_type),
                               success |-> PyBool(self.errors = 0),
                               status |-> PyStr(IF self.errors = 0 THEN "PASS" ELSE "ISSUES")])]]
    /\ UNCHANGED <<objects, notSharing, catalogVars, heuristicVars, dependencyVars, ledgerVars>>

\* the heap after an access has evaluated its dict display
evaluate_display(heap, property, mapping) ==
    IF new_object(heap) > Len(heap)
    THEN Append(heap, [property |-> property, mapping |-> mapping])
    ELSE heap

Edited(heap) ==
    {i \in DOMAIN heap :
        heap[i].mapping # (IF heap[i].property = "default_tools"
                           THEN PythonAdapter_default_tools
                           ELSE PythonAdapter_default_metrics)}

\* adapter.default_tools or adapter.default_metrics: the thread is handed
\* the mapping and keeps it
Access(t, property, mapping) ==
    /\ threads[t].pc = "idle"
    /\ Len(objects) < MaxObjects
    /\ objects' = evaluate_display(objects, property, mapping)
    /\ threads' = [threads EXCEPT ![t] =
         [NoCall EXCEPT !.call = property,
                        !.held = new_object(objects),
                        !.after_edit = Edited(objects) # {},
                        !.result = Return(objects'[new_object(objects)].mapping)]]
    /\ UNCHANGED <<notSharing, catalogVars, heuristicVars, dependencyVars, ledgerVars>>

AccessDefaultTools(t) == Access(t, "default_tools", PythonAdapter_default_tools)

AccessDefaultMetrics(t) == Access(t, "default_metrics", PythonAdapter_default_metrics)

\* the caller changes an entry of the mapping it holds
CallerEdit(t) ==
    /\ threads[t].pc = "idle"
    /\ threads[t].held \in DOMAIN objects
    /\ objects' = [objects EXCEPT ![threads[t].held] = caller_edit(@)]
    /\ UNCHANGED <<threads, notSharing, catalogVars, heuristicVars, dependencyVars, ledgerVars>>

NextSharing ==
    \E t \in Threads :
        \/ CallParseLint(t)
        \/ LintLine(t)
        \/ LintReturn(t)
        \/ AccessDefaultTools(t)
        \/ AccessDefaultMetrics(t)
        \/ CallerEdit(t)

SpecSharing == InitSharing /\ [][NextSharing]_vars

(***************************************************************************)
(* C19: claim about the statelessness of an adapter                        *)
(***************************************************************************)
\* what the call a thread has made returns when it runs alone
Alone(self) ==
    CASE self.call = "parse_lint_output" -> PythonAdapter_parse_lint_output(self.output)
      [] self.call = "default_tools" -> Return(PythonAdapter_default_tools)
      [] self.call = "default_metrics" -> Return(PythonAdapter_default_metrics)

\* C19: whatever the interleaving of the calls made on one shared adapter,
\* every call that has returned has returned what it returns when run alone;
\* a mapping edited by its caller changes no later access.
C19_Statelessness ==
    \A t \in Threads :
        Called(threads[t].result) => threads[t].result = Alone(threads[t])

\* a thread was handed default_tools after another caller had edited the
\* mapping it was handed, while the other thread is inside the lint parser
C19_Witness ==
    \E t \in Threads, u \in Threads :
        /\ threads[t].call = "default_tools"
        /\ Called(threads[t].result)
        /\ threads[t].after_edit
        /\ \E i \in Edited(objects) : objects[i].property = "default_tools"
        /\ threads[u].pc = "for line in lines"
        /\ threads[u].index > 0

(***************************************************************************)
(* The template catalog as the process holds it: PROJECT_TEMPLATES is a    *)
(* module-level dict, create_orchestrator_config copies the top level of a *)
(* template's config (dict.copy is shallow) and returns it, so the tools   *)
(* and metrics mappings of a returned configuration are the objects of the *)
(* catalog.  A returned configuration is [values, template]: its own       *)
(* top-level entries, and the template whose tools and metrics it shares.  *)
(***************************************************************************)
MaxConfigs == 2

\* Path.name
path_name(path) == split_on(path, "/")[Len(split_on(path, "/"))]

\* create_orchestrator_config(project_path, project_type, custom_name)
create_orchestrator_config(templates, project_path, project_type, custom_name) ==
    IF project_type \notin TemplateNames(templates) THEN Raise("KeyError")
    ELSE Return(
        [values |->
            [language |-> TemplateNamed(templates, project_type).config.language,
             project_name |-> IF custom_name \in {None, ""}
                              THEN path_name(project_path) ELSE custom_name,
             project_type |-> project_type,
             orchestrator_version |-> "1.0.0",
             standards |-> [max_function_lines |-> 30,
                            test_coverage |-> 80,
                            security_level |-> "no-high",
                            documentation_required |-> TRUE],
             gates |-> ConfigGates],
         template |-> project_type])

\* the catalog after config['tools']['test'] = tool
set_tool(templates, config, tool) ==
    [i \in 1..Len(templates) |->
        IF templates[i].name = config.template
        THEN [templates[i] EXCEPT !.config.tools.test = tool]
        ELSE templates[i]]

\* the catalog after config['metrics']['performance'] = {}
clear_performance(templates, config) ==
    [i \in 1..Len(templates) |->
        IF templates[i].name = config.template
        THEN [templates[i] EXCEPT !.config.metrics.performance = << >>]
        ELSE templates[i]]

CatalogProjects ==
    {p \in Projects : /\ p.path = "/work/app"
                      /\ p.access = "ok"
                      /\ Cardinality(p.files) = 1
                      /\ \E f \in p.files : f.name \in {"requirements.txt", "package.json", "main.go"}
                      /\ \A n \in DOMAIN p.content : p.content[n] = [readable |-> TRUE, text |-> ""]}

RequestedTypes == {"python_ml", "python_api", "cobol"}
CustomNames == {None, "demo"}

InitCatalog ==
    /\ catalog = PROJECT_TEMPLATES
    /\ configs = << >>
    /\ project \in CatalogProjects
    /\ scores = Idle /\ detected = NotCalled
    /\ language = Idle /\ adapter = NotCalled
    /\ command = Idle /\ host = Idle /\ invocation = NotCalled /\ probe = NotCalled
    /\ policy = Idle /\ measured = 0 /\ verdict = NotCalled
    /\ raw = Idle /\ parsed = NotParsed
    /\ orchestrator_config = Idle /\ acceptance = NotCalled /\ verdicts = NotCalled /\ accepted = NotCalled
    /\ objects = << >> /\ threads = Idle
    /\ source = Idle /\ ceiling = 0 /\ measure = NotMeasured
    /\ manifests = Idle /\ dependencies = NotCalled
    /\ ledger = Idle /\ history = << >>

notCatalog == <<registryVars, invokerVars, gateVars, parserVars, pipelineVars, sharingVars>>

\* detect_project_type(project_path)
DetectFromCatalog ==
    /\ detected' = detect_project_type(catalog, project, FALSE)
    /\ scores' = compute_scores(catalog, project)
    /\ UNCHANGED <<project, catalog, configs, notCatalog, heuristicVars, dependencyVars, ledgerVars>>

\* create_orchestrator_config(project_path, project_type, custom_name)
CreateConfig ==
    /\ Len(configs) < MaxConfigs
    /\ \E project_type \in RequestedTypes, custom_name \in CustomNames :
         configs' = Append(configs,
                       create_orchestrator_config(catalog, project.path, project_type, custom_name))
    /\ UNCHANGED <<catalog, classifierVars, notCatalog, heuristicVars, dependencyVars, ledgerVars>>

Returned_configs == {i \in DOMAIN configs : configs[i].exc = "none"}

\* the caller: config['language'] = 'cobol'
EditLanguage ==
    /\ \E i \in Returned_configs :
         configs' = [configs EXCEPT ![i].value.values.language = "cobol"]
    /\ UNCHANGED <<catalog, classifierVars, notCatalog, heuristicVars, dependencyVars, ledgerVars>>

\* the caller: config['tools']['test'] = 'make test'
EditTools ==
    /\ \E i \in Returned_configs :
         catalog' = set_tool(catalog, configs[i].value, "make test")
    /\ UNCHANGED <<configs, classifierVars, notCatalog, heuristicVars, dependencyVars, ledgerVars>>

\* the caller: config['metrics']['performance'] = {}
EditMetrics ==
    /\ \E i \in Returned_configs :
         catalog' = clear_performance(catalog, configs[i].value)
    /\ UNCHANGED <<configs, classifierVars, notCatalog, heuristicVars, dependencyVars, ledgerVars>>

NextCatalog ==
    \/ DetectFromCatalog
    \/ CreateConfig
    \/ EditLanguage
    \/ EditTools
    \/ EditMetrics

SpecCatalog == InitCatalog /\ [][NextCatalog]_vars

(***************************************************************************)
(* C20: claim about the template catalog                                   *)
(***************************************************************************)
\* C20: whatever detect_project_type calls, create_orchestrator_config calls
\* and caller edits of returned configurations have happened, the catalog
\* PROJECT_TEMPLATES equals its initial value.
C20_CatalogReadOnly == catalog = PROJECT_TEMPLATES

(***************************************************************************)
(* C26: claim about the tie-break of the classifier                        *)
(***************************************************************************)
\* the only thing the project holds is one empty file of that name at its root
OnlySignal(p, name) ==
    /\ p.access = "ok"
    /\ p.files = {[dir |-> "", name |-> name]}
    /\ \A n \in DOMAIN p.content : p.content[n] = [readable |-> TRUE, text |-> ""]

\* the place of a template in the order of the catalog
CatalogPlace(name) == CHOOSE i \in 1..Len(PROJECT_TEMPLATES) : PROJECT_TEMPLATES[i].name = name

\* C26: when the highest score is positive, detect_project_type returns the
\* template declared first in the catalog among those that share it; a
\* project whose only signal is requirements.txt is python_ml, one whose
\* only signal is package.json is typescript_node.
C26_TieBreak ==
    (Called(detected) /\ detected.exc = "none") =>
        /\ (\E n \in DOMAIN scores : scores[n] > 0) =>
              /\ detected.value \in DOMAIN scores
              /\ \A n \in DOMAIN scores :
                    \/ scores[n] < scores[detected.value]
                    \/ /\ scores[n] = scores[detected.value]
                       /\ CatalogPlace(detected.value) <= CatalogPlace(n)
        /\ OnlySignal(project, "requirements.txt") => detected.value = "python_ml"
        /\ OnlySignal(project, "package.json") => detected.value = "typescript_node"

(***************************************************************************)
(* C25: claim about the totals of the parsers                              *)
(***************************************************************************)
\* a + b + c as Python adds the values of a result
PySum(a, b, c) ==
    IF PyAdd(a, b).exc # "none" THEN PyAdd(a, b) ELSE PyAdd(PyAdd(a, b).value, c)

\* C25: in every result a parser returns the total is the sum of its parts:
\* passed + failed for the generic test parser, passed + failed + skipped
\* for the Python test parser, errors + warnings for the lint parsers and
\* high + medium + low for the security parsers.
C25_TotalsConsistent ==
    Returned =>
        /\ parsed.parser = "BaseAdapter.parse_test_output" =>
              Return(Result.total) = PyAdd(Result.passed, Result.failed)
        /\ parsed.parser = "PythonAdapter.parse_test_output" =>
              Return(Result.total) = PySum(Result.passed, Result.failed, Result.skipped)
        /\ parsed.parser \in LintParsers =>
              Return(Result.total_issues) = PyAdd(Result.errors, Result.warnings)
        /\ parsed.parser \in SecurityParsers =>
              Return(Result.total_issues) = PySum(Result.high, Result.medium, Result.low)

\* the Python test parser has returned counts that its summary line
\* overrode, with a test skipped
C25_Witness ==
    /\ parsed.parser = "PythonAdapter.parse_test_output"
    /\ Returned
    /\ summary_search(raw).found
    /\ Result.passed # PyInt(CountLines([i \in DOMAIN Lines(raw) |-> PytestPassedLine(Lines(raw)[i])]))
    /\ Result.skipped # PyInt(0)

(***************************************************************************)
(* Heuristics on one source file (estimate_complexity of BaseAdapter and   *)
(* PythonAdapter, validate_function_length of PythonAdapter).  A file is   *)
(* [name, readable, text]; read_text raises on a file that is not readable.*)
(***************************************************************************)
\* str.lstrip(), str.rstrip() and str.strip()
lstrip(s) == SubSeq(s, RunEnd(s, 1, RegexSpace) + 1, Len(s))

rstrip(s) ==
    LET kept == {i \in 1..Len(s) : Char(s, i) \notin RegexSpace} IN
    IF kept = {} THEN "" ELSE SubSeq(s, 1, CHOOSE i \in kept : \A j \in kept : j <= i)

strip(s) == rstrip(lstrip(s))

\* str.startswith
startswith(s, prefix) == LiteralAt(s, 1, prefix)

\* str(n) for a natural number
RECURSIVE str(_)
str(n) ==
    IF n < 10 THEN Char(Digits, n + 1)
    ELSE str(n \div 10) \o Char(Digits, (n % 10) + 1)

\* base.py line 143
BaseAdapter_complexity_keywords ==
    <<"if", "elif", "else", "for", "while", "try", "except", "switch", "case">>

\* python_adapter.py lines 195 to 198
PythonAdapter_complexity_keywords ==
    <<"if ", "elif ", "else:", "for ", "while ", "try:", "except ",
      "with ", "and ", "or ", "lambda", "?">>

\* the increments of the two nested loops: one for each line and keyword
\* with `keyword in line`
keyword_hits(lines, keywords) ==
    Cardinality({hit \in (DOMAIN lines) \X (DOMAIN keywords) :
                    Contains(lines[hit[1]], keywords[hit[2]])})

\* BaseAdapter.estimate_complexity(file_path)
BaseAdapter_estimate_complexity(file) ==
    IF ~file.readable THEN Return(0)
    ELSE Return(1 + keyword_hits(split_on(file.text, "\n"), BaseAdapter_complexity_keywords))

\* PythonAdapter.estimate_complexity(file_path)
PythonAdapter_estimate_complexity(file) ==
    IF ~file.readable THEN Return(0)
    ELSE LET lines == split_on(file.text, "\n")
             stripped == [i \in DOMAIN lines |-> strip(lines[i])]
         IN  Return(1 + keyword_hits(stripped, PythonAdapter_complexity_keywords))

\* the f-string of lines 248-251, 260-263 and 268-271
length_violation(name, function_start, current_function, max_lines, length) ==
    name \o ":" \o str(function_start + 1) \o " - " \o current_function
         \o " exceeds " \o str(max_lines) \o " lines (" \o str(length) \o " lines)"

\* stripped.startswith('def ') or stripped.startswith('async def ')
IsDefLine(line) ==
    startswith(strip(line), "def ") \/ startswith(strip(line), "async def ")

\* len(line) - len(line.lstrip())
indent_of(line) == Len(line) - Len(lstrip(line))

\* the locals before the loop of line 241
NoFunction ==
    [current_function |-> None, function_start |-> 0, indent_level |-> 0,
     violations |-> << >>]

\* the body of the loop for the line of index i (from 0), lines 242 to 265
length_step(name, max_lines, locals, i, line) ==
    LET stripped == strip(line)
        inside == locals.current_function # None
        length == i - locals.function_start
        reported == IF inside /\ length > max_lines
                    THEN Append(locals.violations,
                                length_violation(name, locals.function_start,
                                                 locals.current_function, max_lines, length))
                    ELSE locals.violations
    IN  IF IsDefLine(line)
        THEN [current_function |-> split_on(stripped, "(")[1],
              function_start |-> i,
              indent_level |-> indent_of(line),
              violations |-> reported]
        ELSE IF inside /\ stripped # "" /\ indent_of(line) <= locals.indent_level
        THEN IF \E prefix \in {"def ", "async def ", "class ", "@"} : startswith(stripped, prefix)
             THEN locals
             ELSE [locals EXCEPT !.current_function = None, !.violations = reported]
        ELSE locals

\* the locals after the lines of index below n
RECURSIVE length_loop(_, _, _, _)
length_loop(name, max_lines, lines, n) ==
    IF n = 0 THEN NoFunction
    ELSE length_step(name, max_lines, length_loop(name, max_lines, lines, n - 1),
                     n - 1, lines[n])

\* PythonAdapter.validate_function_length(file_path, max_lines)
PythonAdapter_validate_function_length(file, max_lines) ==
    IF ~file.readable
    THEN Return(<<"Error analyzing " \o file.name \o ": [Errno 13] Permission denied: '"
                    \o file.name \o "'">>)
    ELSE LET lines == split_on(file.text, "\n")
             locals == length_loop(file.name, max_lines, lines, Len(lines))
             length == Len(lines) - locals.function_start
         IN  IF locals.current_function # None /\ length > max_lines
             THEN Return(Append(locals.violations,
                                length_violation(file.name, locals.function_start,
                                                 locals.current_function, max_lines, length)))
             ELSE Return(locals.violations)

MaxSourceLines == 3

FunctionLines ==
    {"def f():", "    x = 1", "    def g():", "class A:", "z = 3", ""}

KeywordLines ==
    {"if ready:", "elif done:", "value = 1 if a else 2 if b else 3",
     "    for item in items:", "x = 1", "while a and b or c: "}

\* the texts of at most n lines of a vocabulary
RECURSIVE TextsUpTo(_, _)
TextsUpTo(vocabulary, n) ==
    IF n = 1 THEN vocabulary
    ELSE TextsUpTo(vocabulary, n - 1) \cup
         {text \o "\n" \o line : text \in TextsUpTo(vocabulary, n - 1), line \in vocabulary}

SourceFiles ==
    {[name |-> "module.py", readable |-> TRUE, text |-> text] :
        text \in TextsUpTo(FunctionLines, MaxSourceLines)
                 \cup TextsUpTo(KeywordLines, MaxSourceLines)}
    \cup {[name |-> "module.py", readable |-> FALSE, text |-> ""]}

Ceilings == {1, 2}

InitHeuristics ==
    /\ source \in SourceFiles
    /\ ceiling \in Ceilings
    /\ measure = NotMeasured
    /\ language = Idle /\ adapter = NotCalled
    /\ project = Idle /\ scores = Idle /\ detected = NotCalled
    /\ command = Idle /\ host = Idle /\ invocation = NotCalled /\ probe = NotCalled
    /\ policy = Idle /\ measured = 0 /\ verdict = NotCalled
    /\ raw = Idle /\ parsed = NotParsed
    /\ orchestrator_config = Idle /\ acceptance = NotCalled /\ verdicts = NotCalled /\ accepted = NotCalled
    /\ objects = << >> /\ threads = Idle
    /\ catalog = Idle /\ configs = << >>
    /\ manifests = Idle /\ dependencies = NotCalled
    /\ ledger = Idle /\ history = << >>

notHeuristics ==
    <<registryVars, classifierVars, invokerVars, gateVars, parserVars, pipelineVars,
      sharingVars, catalogVars>>

\* BaseAdapter.estimate_complexity(source)
BaseEstimateComplexity ==
    /\ ~Called(measure.outcome)
    /\ measure' = [heuristic |-> "BaseAdapter.estimate_complexity",
                   outcome |-> BaseAdapter_estimate_complexity(source)]
    /\ UNCHANGED <<source, ceiling, notHeuristics, dependencyVars, ledgerVars>>

\* PythonAdapter.estimate_complexity(source)
PythonEstimateComplexity ==
    /\ ~Called(measure.outcome)
    /\ measure' = [heuristic |-> "PythonAdapter.estimate_complexity",
                   outcome |-> PythonAdapter_estimate_complexity(source)]
    /\ UNCHANGED <<source, ceiling, notHeuristics, dependencyVars, ledgerVars>>

\* PythonAdapter.validate_function_length(source, ceiling)
PythonValidateLength ==
    /\ ~Called(measure.outcome)
    /\ measure' = [heuristic |-> "PythonAdapter.validate_function_length",
                   outcome |-> PythonAdapter_validate_function_length(source, ceiling)]
    /\ UNCHANGED <<source, ceiling, notHeuristics, dependencyVars, ledgerVars>>

NextHeuristics ==
    \/ BaseEstimateComplexity
    \/ PythonEstimateComplexity
    \/ PythonValidateLength

SpecHeuristics == InitHeuristics /\ [][NextHeuristics]_vars

(***************************************************************************)
(* C22: claim about the complexity estimate                                *)
(***************************************************************************)
\* the places where a keyword occurs in a line
OccurrencesIn(line, keyword) == {at \in 1..Len(line) : LiteralAt(line, at, keyword)}

\* the occurrences of the keywords in the lines: <<line, keyword, place>>
KeywordOccurrences(lines, keywords) ==
    UNION {{<<l, k, at>> : at \in OccurrencesIn(lines[l], keywords[k])} :
              l \in DOMAIN lines, k \in DOMAIN keywords}

\* C22: for a readable file estimate_complexity returns 1 plus one for each
\* occurrence of a keyword of the adapter's set on each line: a line with k
\* occurrences adds k, a file without any scores 1.
C22_ComplexityEstimate ==
    LET lines == split_on(source.text, "\n") IN
    /\ (measure.heuristic = "BaseAdapter.estimate_complexity" /\ source.readable) =>
          measure.outcome =
              Return(1 + Cardinality(KeywordOccurrences(lines, BaseAdapter_complexity_keywords)))
    /\ (measure.heuristic = "PythonAdapter.estimate_complexity" /\ source.readable) =>
          measure.outcome =
              Return(1 + Cardinality(KeywordOccurrences([i \in DOMAIN lines |-> strip(lines[i])],
                                                        PythonAdapter_complexity_keywords)))

(***************************************************************************)
(* C21: claim about the validation of function lengths                     *)
(***************************************************************************)
\* the lines of a text: a newline at the end of the text ends the last
\* line, it does not start another one
FileLines(text) ==
    LET pieces == split_on(text, "\n") IN
    IF pieces[Len(pieces)] = "" THEN SubSeq(pieces, 1, Len(pieces) - 1) ELSE pieces

\* the lines a function starts at
DefLines(lines) == {d \in DOMAIN lines : IsDefLine(lines[d])}

\* the length of the function that starts at line d: the lines from its def
\* line to the next line, blank lines aside, at the same or shallower
\* indentation, or to the end of the file
FunctionLength(lines, d) ==
    LET ends == {e \in (d + 1)..Len(lines) :
                    /\ strip(lines[e]) # ""
                    /\ indent_of(lines[e]) <= indent_of(lines[d])}
    IN  IF ends = {} THEN Len(lines) - d + 1 ELSE Min(ends) - d

\* the violations recorded for the function that starts at line d
ViolationsOf(violations, name, d) ==
    {v \in DOMAIN violations : startswith(violations[v], name \o ":" \o str(d) \o " - ")}

\* C21: for a readable file validate_function_length records one violation
\* for each function whose length exceeds max_lines and nothing else: none
\* for a function of exactly max_lines lines, never two for one function.
C21_FunctionLength ==
    (measure.heuristic = "PythonAdapter.validate_function_length" /\ source.readable) =>
        LET lines == FileLines(source.text)
            violations == measure.outcome.value
        IN  /\ measure.outcome.exc = "none"
            /\ \A d \in DefLines(lines) :
                  Cardinality(ViolationsOf(violations, source.name, d)) =
                      IF FunctionLength(lines, d) > ceiling THEN 1 ELSE 0
            /\ \A v \in DOMAIN violations :
                  \E d \in DefLines(lines) : v \in ViolationsOf(violations, source.name, d)

(***************************************************************************)
(* PythonAdapter.get_dependencies.  A project is [access, requirements,    *)
(* pyproject, setup], a manifest [status, text] with status absent,        *)
(* unreadable (read_text raises) or present.  The list `dependencies` is   *)
(* kept as the set of its elements, which is all list(set(...)) returns.   *)
(* tomllib.loads is modelled for documents made of comment lines, table    *)
(* headers `[name]` and lines `key = value` whose value is an integer, a   *)
(* string or an array of them on one line.                                 *)
(***************************************************************************)
\* re.split(r'[><=!]', dep)[0].strip()
package_name(dep) ==
    LET at == {i \in 1..Len(dep) : Char(dep, i) \in {">", "<", "=", "!"}} IN
    strip(IF at = {} THEN dep ELSE SubSeq(dep, 1, Min(at) - 1))

\* lines 295 to 300: the packages of the text of requirements.txt
requirements_packages(content) ==
    LET lines == split_on(content, "\n")
        kept == {i \in DOMAIN lines :
                    strip(lines[i]) # "" /\ ~startswith(strip(lines[i]), "#")}
    IN  {package_name(strip(lines[i])) : i \in kept}

BareKeyChars ==
    UpperChars \cup {lower_char(c) : c \in UpperChars} \cup DigitChars \cup {"-", "_"}

IsBareKey(key) == Len(key) > 0 /\ \A i \in 1..Len(key) : Char(key, i) \in BareKeyChars

\* a value of the kinds above; anything else is a TOMLDecodeError here
toml_value(text) ==
    LET value == json_loads(text)
        plain(v) == v.t \in {"int", "str"}
    IN  IF value.exc # "none" THEN Raise("TOMLDecodeError")
        ELSE IF plain(value.value) THEN value
        ELSE IF value.value.t = "list" /\ \A i \in DOMAIN value.value.v : plain(value.value.v[i])
        THEN value
        ELSE Raise("TOMLDecodeError")

\* f with key bound to value
bind(f, key, value) == [k \in DOMAIN f \cup {key} |-> IF k = key THEN value ELSE f[k]]

\* the document read so far: the open table, the root mapping, the failure
TomlStart == [table |-> "", root |-> << >>, failed |-> FALSE]

toml_line(doc, line) ==
    LET text == strip(line)
        equals == {i \in 1..Len(text) : Char(text, i) = "="}
        header == SubSeq(text, 2, Len(text) - 1)
        key == strip(SubSeq(text, 1, Min(equals) - 1))
        value == toml_value(strip(SubSeq(text, Min(equals) + 1, Len(text))))
        fail == [doc EXCEPT !.failed = TRUE]
    IN  IF doc.failed \/ text = "" \/ startswith(text, "#") THEN doc
        ELSE IF startswith(text, "[") /\ Char(text, Len(text)) = "]"
        THEN IF ~IsBareKey(header) \/ header \in DOMAIN doc.root THEN fail
             ELSE [doc EXCEPT !.table = header,
                              !.root = bind(doc.root, header, PyDict(<< >>))]
        ELSE IF equals = {} THEN fail
        ELSE IF ~IsBareKey(key) \/ value.exc # "none" THEN fail
        ELSE IF doc.table = ""
        THEN IF key \in DOMAIN doc.root THEN fail
             ELSE [doc EXCEPT !.root = bind(doc.root, key, value.value)]
        ELSE IF key \in DOMAIN doc.root[doc.table].v THEN fail
        ELSE [doc EXCEPT !.root =
                 bind(doc.root, doc.table,
                      PyDict(bind(doc.root[doc.table].v, key, value.value)))]

RECURSIVE toml_lines(_, _)
toml_lines(lines, n) ==
    IF n = 0 THEN TomlStart
    ELSE CHOOSE next \in {toml_line(doc, lines[n]) : doc \in {toml_lines(lines, n - 1)}} : TRUE

\* tomllib.loads(content)
toml_loads(content) ==
    CHOOSE outcome \in
        {IF doc.failed THEN Raise("TOMLDecodeError") ELSE Return(PyDict(doc.root)) :
            doc \in {toml_lines(lines, Len(lines)) : lines \in {split_on(content, "\n")}}} : TRUE

\* a loop `for dep in deps: dependencies.append(package_name(dep))`: the
\* packages appended, and whether an exception ended the loop
append_packages(deps) ==
    IF PyIter(deps).exc # "none" THEN [packages |-> {}, failed |-> TRUE]
    ELSE LET items == PyIter(deps).value
             bad == {i \in DOMAIN items : items[i].t # "str"}
             done == IF bad = {} THEN DOMAIN items ELSE 1..(Min(bad) - 1)
         IN  [packages |-> {package_name(items[i].v) : i \in done}, failed |-> bad # {}]

\* data.get(table, {}).get(key, [])
table_get(data, table, key) ==
    LET entry == PyGet(data, table, PyDict(<< >>)) IN
    IF entry.exc # "none" THEN entry ELSE PyGet(entry.value, key, PyList(<< >>))

\* lines 310 to 325: the packages appended when the try block ends, given
\* the outcome of tomllib.loads
loaded_packages(loaded) ==
    IF loaded.exc # "none" THEN {}
    ELSE LET project_deps == table_get(loaded.value, "project", "dependencies")
             build_deps == table_get(loaded.value, "build-system", "requires")
         IN  IF project_deps.exc # "none" THEN {}
             ELSE IF append_packages(project_deps.value).failed \/ build_deps.exc # "none"
             THEN append_packages(project_deps.value).packages
             ELSE append_packages(project_deps.value).packages
                  \cup append_packages(build_deps.value).packages

\* lines 307 to 325: `import tomllib` fails before 3.11
pyproject_packages(content, has_tomllib) ==
    IF ~has_tomllib THEN {}
    ELSE CHOOSE packages \in {loaded_packages(loaded) : loaded \in {toml_loads(content)}} : TRUE

Quotes == {"\"", "'"}

\* re.search(r'install_requires\s*=\s*\[(.*?)\]', content, re.DOTALL)
install_requires_search(content) ==
    LET open(a) == RunEnd(content, RunEnd(content, a + 16, RegexSpace) + 2, RegexSpace) + 1
        close(a) == {j \in (open(a) + 1)..Len(content) : Char(content, j) = "]"}
        starts == {a \in 1..Len(content) :
                     /\ LiteralAt(content, a, "install_requires")
                     /\ LiteralAt(content, RunEnd(content, a + 16, RegexSpace) + 1, "=")
                     /\ LiteralAt(content, open(a), "[")
                     /\ close(a) # {}}
    IN  IF starts = {} THEN [found |-> FALSE, group |-> ""]
        ELSE [found |-> TRUE,
              group |-> SubSeq(content, open(Min(starts)) + 1, Min(close(Min(starts))) - 1)]

\* re.findall(r'["\']([^"\']+)["\']', s) from index i on
RECURSIVE findall_quoted(_, _)
findall_quoted(s, i) ==
    LET closing(q) == {j \in (q + 2)..Len(s) : Char(s, j) \in Quotes}
        starts == {q \in i..Len(s) :
                     /\ Char(s, q) \in Quotes
                     /\ q + 1 <= Len(s)
                     /\ Char(s, q + 1) \notin Quotes
                     /\ closing(q) # {}}
    IN  IF starts = {} THEN {}
        ELSE LET q == Min(starts)
                 e == Min(closing(q))
             IN  {SubSeq(s, q + 1, e - 1)} \cup findall_quoted(s, e + 1)

\* lines 331 to 344: the packages of the text of setup.py
setup_packages(content) ==
    IF ~install_requires_search(content).found THEN {}
    ELSE {package_name(dep) : dep \in findall_quoted(install_requires_search(content).group, 1)}

\* PythonAdapter.get_dependencies(project_path).  Path.exists() (lines 292,
\* 306, 330) is outside the try blocks: see detect_project_type.
get_dependencies(p, has_tomllib, stat_raises) ==
    IF p.access = "unsearchable"
    THEN IF stat_raises THEN Raise("PermissionError") ELSE Return({})
    ELSE Return(
        (IF p.requirements.status = "present"
         THEN requirements_packages(p.requirements.text) ELSE {})
        \cup (IF p.pyproject.status = "present"
              THEN pyproject_packages(p.pyproject.text, has_tomllib) ELSE {})
        \cup (IF p.setup.status = "present"
              THEN setup_packages(p.setup.text) ELSE {}))

RequirementsTexts ==
    {"flask>=2.0\nrequests==2.31", "requests~=2.31", "# pinned\n\n  flask  ", "numpy<2"}

PyprojectTexts ==
    {"[project]\ndependencies = [\"flask>=2.0\", \"numpy\"]",
     "[build-system]\nrequires = [\"setuptools>=61\"]\n[project]\ndependencies = [\"flask\"]",
     "[project]\ndependencies = [\"numpy\"]\n[build-system]\nrequires = 5",
     "[project]\ndependencies = [\"numpy\"",
     "[project]\nname = \"demo\"\n# no dependencies",
     "project = 5"}

SetupTexts ==
    {"setup(install_requires=['flask>=2.0', \"click\"])",
     "setup(name='demo')",
     "install_requires = [\n    'numpy<2',\n]",
     "setup(install_requires=['flask'"}

ManifestsOf(texts) ==
    {[status |-> "absent", text |-> ""], [status |-> "unreadable", text |-> ""]}
    \cup {[status |-> "present", text |-> t] : t \in texts}

DependencyProjects ==
    [access : {"ok", "unsearchable"},
     requirements : ManifestsOf(RequirementsTexts),
     pyproject : ManifestsOf(PyprojectTexts),
     setup : ManifestsOf(SetupTexts)]

InitDependencies ==
    /\ manifests \in DependencyProjects
    /\ dependencies = NotCalled
    /\ language = Idle /\ adapter = NotCalled
    /\ project = Idle /\ scores = Idle /\ detected = NotCalled
    /\ command = Idle /\ host = Idle /\ invocation = NotCalled /\ probe = NotCalled
    /\ policy = Idle /\ measured = 0 /\ verdict = NotCalled
    /\ raw = Idle /\ parsed = NotParsed
    /\ orchestrator_config = Idle /\ acceptance = NotCalled /\ verdicts = NotCalled /\ accepted = NotCalled
    /\ objects = << >> /\ threads = Idle
    /\ catalog = Idle /\ configs = << >>
    /\ source = Idle /\ ceiling = 0 /\ measure = NotMeasured
    /\ ledger = Idle /\ history = << >>

\* adapter.get_dependencies(project_path): the interpreter decides whether
\* tomllib exists (3.11 on) and whether Path.exists re-raises EACCES
GetDependencies ==
    /\ ~Called(dependencies)
    /\ \E has_tomllib \in BOOLEAN, stat_raises \in BOOLEAN :
         dependencies' = get_dependencies(manifests, has_tomllib, stat_raises)
    /\ UNCHANGED <<manifests, notHeuristics, heuristicVars, ledgerVars>>

NextDependencies == GetDependencies

SpecDependencies == InitDependencies /\ [][NextDependencies]_vars

(***************************************************************************)
(* C23: claim about the extraction of dependencies                         *)
(***************************************************************************)
NameChars ==
    UpperChars \cup {lower_char(c) : c \in UpperChars} \cup DigitChars \cup {".", "-", "_"}

\* the package a requirement names: what stands before its version
\* specifier (==, >=, <=, <, >, !=, ~=)
RequiredPackage(requirement) ==
    SubSeq(strip(requirement), 1, RunEnd(strip(requirement), 1, NameChars))

\* a value is a list of requirement strings
IsRequirementList(value) ==
    value.t = "list" /\ \A i \in DOMAIN value.v : value.v[i].t = "str"

\* the requirement lists of a pyproject.toml that parses
PyprojectLists(data) ==
    {table_get(data, "project", "dependencies"), table_get(data, "build-system", "requires")}

\* the manifest can be read and parsed
Parses(p, manifest) ==
    /\ p.access = "ok"
    /\ p[manifest].status = "present"
    /\ manifest = "pyproject" =>
          /\ toml_loads(p.pyproject.text).exc = "none"
          /\ \A list \in PyprojectLists(toml_loads(p.pyproject.text).value) :
                list.exc = "none" /\ IsRequirementList(list.value)

\* the requirements a manifest declares
Declared(p, manifest) ==
    CASE manifest = "requirements" ->
            LET lines == split_on(p.requirements.text, "\n") IN
            {strip(lines[i]) : i \in {j \in DOMAIN lines :
                strip(lines[j]) # "" /\ ~startswith(strip(lines[j]), "#")}}
      [] manifest = "pyproject" ->
            UNION {{list.value.v[i].v : i \in DOMAIN list.value.v} :
                      list \in PyprojectLists(toml_loads(p.pyproject.text).value)}
      [] manifest = "setup" ->
            findall_quoted(install_requires_search(p.setup.text).group, 1)

\* C23: get_dependencies never raises and returns the packages, version
\* specifiers stripped, of every manifest that can be read and parsed; a
\* manifest that is absent, unreadable or malformed contributes nothing.
C23_BestEffortDependencies ==
    Called(dependencies) =>
        /\ dependencies.exc = "none"
        /\ dependencies.value =
              UNION {{RequiredPackage(r) : r \in Declared(manifests, m)} :
                        m \in {m \in {"requirements", "pyproject", "setup"} : Parses(manifests, m)}}

(***************************************************************************)
(* Benchmark ledger (cli.py, benchmark).  The ledger is the file           *)
(* ci/BENCH_SUMMARY.txt; a value is the float [negative, quarters], that   *)
(* is, plus or minus quarters / 4; the dict `metrics` is the sequence of   *)
(* its items [key, val] in insertion order.                                *)
(***************************************************************************)
\* f"{value:+.1f}%": the sign, then the value rounded to one decimal, a tie
\* going to the even digit (a number of quarters is exact in binary)
format_value(value) ==
    LET below == (5 * value.quarters) \div 2
        tenths == IF (5 * value.quarters) % 2 = 0 \/ below % 2 = 0 THEN below ELSE below + 1
    IN  (IF value.negative THEN "-" ELSE "+")
            \o str(tenths \div 10) \o "." \o str(tenths % 10) \o "%"

\* sep.join(words)
RECURSIVE join(_, _)
join(sep, words) ==
    IF Len(words) = 0 THEN ""
    ELSE IF Len(words) = 1 THEN words[1]
    ELSE words[1] \o sep \o join(sep, Tail(words))

\* metrics[key] = val, with the key moved behind the others
metrics_set_last(metrics, key, val) ==
    SelectSeq(metrics, LAMBDA item : item.key # key) \o <<[key |-> key, val |-> val]>>

\* metrics[key] = val: a key the dict holds keeps its place
metrics_set(metrics, key, val) ==
    IF \E i \in DOMAIN metrics : metrics[i].key = key
    THEN [i \in DOMAIN metrics |->
            IF metrics[i].key = key THEN [key |-> key, val |-> val] ELSE metrics[i]]
    ELSE Append(metrics, [key |-> key, val |-> val])

\* key, val = part.split(':', 1)
split_once(part) ==
    LET at == Min({i \in 1..Len(part) : Char(part, i) = ":"}) IN
    [key |-> SubSeq(part, 1, at - 1), val |-> SubSeq(part, at + 1, Len(part))]

\* lines 210 to 214: the dict built from the parts that hold a colon
RECURSIVE parse_parts(_, _)
parse_parts(parts, metrics) ==
    IF Len(parts) = 0 THEN metrics
    ELSE parse_parts(Tail(parts),
                     IF Contains(parts[1], ":")
                     THEN metrics_set(metrics, split_once(parts[1]).key, split_once(parts[1]).val)
                     ELSE metrics)

\* lines 205 to 216: the metrics the ledger holds
read_metrics(file) ==
    IF file.exists
    THEN LET content == strip(file.text)
             stripped == IF startswith(content, "BENCH:")
                         THEN strip(SubSeq(content, 7, Len(content)))
                         ELSE content
         IN  parse_parts(split(stripped), << >>)
    ELSE << >>

\* lines 222 to 224
benchmark_line(metrics) ==
    "BENCH: " \o join(" ", [i \in DOMAIN metrics |-> metrics[i].key \o ":" \o metrics[i].val])

\* benchmark(metric_name, value, config): the directory and the file it leaves
benchmark(file, metric_name, value) ==
    LET metrics == metrics_set(read_metrics(file), metric_name, format_value(value)) IN
    [directory |-> TRUE, exists |-> TRUE, text |-> benchmark_line(metrics) \o "\n"]

MaxInvocations == 3

\* metric names without whitespace and without a colon
MetricNames == {"", "p95", "BENCH"}

BenchValues == [negative : BOOLEAN, quarters : {0, 1, 3}]

notLedger ==
    <<registryVars, classifierVars, invokerVars, gateVars, parserVars, pipelineVars,
      sharingVars, catalogVars, heuristicVars, dependencyVars>>

InitLedger ==
    /\ ledger \in [directory : BOOLEAN, exists : {FALSE}, text : {""}]
    /\ history = << >>
    /\ language = Idle /\ adapter = NotCalled
    /\ project = Idle /\ scores = Idle /\ detected = NotCalled
    /\ command = Idle /\ host = Idle /\ invocation = NotCalled /\ probe = NotCalled
    /\ policy = Idle /\ measured = 0 /\ verdict = NotCalled
    /\ raw = Idle /\ parsed = NotParsed
    /\ orchestrator_config = Idle /\ acceptance = NotCalled /\ verdicts = NotCalled /\ accepted = NotCalled
    /\ objects = << >> /\ threads = Idle
    /\ catalog = Idle /\ configs = << >>
    /\ source = Idle /\ ceiling = 0 /\ measure = NotMeasured
    /\ manifests = Idle /\ dependencies = NotCalled

\* one run of the command `benchmark METRIC_NAME VALUE`
Benchmark ==
    /\ Len(history) < MaxInvocations
    /\ \E metric_name \in MetricNames, value \in BenchValues :
         /\ ledger' = benchmark(ledger, metric_name, value)
         /\ history' = Append(history, [metric_name |-> metric_name, value |-> value])
    /\ UNCHANGED notLedger

NextLedger == Benchmark

SpecLedger == InitLedger /\ [][NextLedger]_vars

(***************************************************************************)
(* C24: claim about the ledger                                             *)
(***************************************************************************)
\* the invocation at i is the first (the last) one for its metric name
FirstRecording(i) ==
    \A j \in 1..(i - 1) : history[j].metric_name # history[i].metric_name

LastRecording(i) ==
    \A j \in (i + 1)..Len(history) : history[j].metric_name # history[i].metric_name

\* the entries of the names first recorded at i or later, in that order,
\* each with the value of the last invocation for its name
RECURSIVE EntriesFrom(_)
EntriesFrom(i) ==
    IF i > Len(history) THEN << >>
    ELSE (IF FirstRecording(i)
          THEN LET last == CHOOSE j \in i..Len(history) :
                               LastRecording(j) /\ history[j].metric_name = history[i].metric_name
               IN  <<history[i].metric_name \o ":" \o format_value(history[last].value)>>
          ELSE << >>) \o EntriesFrom(i + 1)

\* C24: from an absent ledger, after any sequence of benchmark invocations
\* the ledger is the single line "BENCH: " followed by one name:value entry
\* per metric name recorded so far, in the order of first recording, each
\* with the value of the most recent invocation for its name
C24_LedgerAccumulation ==
    /\ ledger.exists <=> Len(history) > 0
    /\ ledger.exists =>
          /\ ledger.text = "BENCH: " \o join(" ", EntriesFrom(1)) \o "\n"
          /\ Len(EntriesFrom(1)) = Cardinality({history[i].metric_name : i \in DOMAIN history})

\* a name is recorded, another one after it, then the first again with
\* another value
C24_Witness ==
    /\ Len(history) = 3
    /\ history[3].metric_name = history[1].metric_name
    /\ history[2].metric_name # history[1].metric_name
    /\ format_value(history[3].value) # format_value(history[1].value)
    /\ ledger.exists

====
